---- MODULE Spec2Model ----
(***************************************************************************)
(* Model of the render/present cycle of the practice-vulkan samples.       *)
(*                                                                         *)
(* The CPU side is VkRenderer::render of hello-graceful-shutdown, one      *)
(* action per Vulkan call (the calls are the points at which the graphics  *)
(* queue and the presentation engine can interleave with the CPU thread).  *)
(* The device side is the behaviour the calls ask the implementation for:  *)
(* a queue that finishes submissions in submission order, signals the      *)
(* submission's semaphores and then its fence, a presentation engine that  *)
(* processes present requests in issue order once their wait semaphore is  *)
(* signaled, and that signals the acquire fence once it no longer reads    *)
(* the image it handed out.                                                *)
(*                                                                         *)
(* Handles are modelled by the index of the object in its vector:          *)
(* mFencesForSubmit[i] is fence object i of the submit fences, and so on.  *)
(*                                                                         *)
(* VK_CHECK_ERROR is modelled as defined under #ifndef NDEBUG (VkUtil.h    *)
(* 120-126).  The NDEBUG definition (128-131) expands to                   *)
(* "do { call } while (0)" with no semicolon after the call, which is      *)
(* ill-formed at every use, so no build uses it.                           *)
(***************************************************************************)
EXTENDS Integers, Sequences, FiniteSets, TLC

VARIABLES
    swapchainImageCount,  \* N, VkRenderer.cpp 325-326
    mFrameIndex,          \* VkRenderer.cpp 81, 1448
    pc,                   \* position of the CPU thread in render()
    swapchainImageIndex,  \* local of render(), 1314
    framebuffer,          \* local of render(), 1321
    presentInfo,          \* local of render(), 1434-1441
    lastResult,           \* VkResult of the most recent Vulkan call
    mFencesForSubmit,     \* fence i |-> signaled?
    mFencesForAcquire,    \* fence i |-> signaled?
    mSemaphores,          \* semaphore i |-> signaled?
    mCommandBuffers,      \* command buffer i |-> [state, commands]
    mUniformData,         \* mapped uniform block i |-> [position, ratio]
    submissions,          \* queue submissions whose fence is not yet signaled, in order
    presents,             \* present requests not yet processed, in order
    acquiring,            \* acquire fence i |-> image whose hand-over it awaits
    imageOwner,           \* swapchain image j |-> "pe" | "app" | "queued"
    peReading,            \* swapchain image j |-> presentation engine reads it
    completed,            \* render calls whose submission the GPU finished
    displayed,            \* render calls whose image the engine displayed
    steps,                \* Vulkan calls made by the current render() call
    calls,                \* number of calls made so far, per kind of call
    slotHistory,          \* frame index used by each render() call so far
    imageOrderDiffers,    \* some call acquired an image index /= its slot
    memoryTypes,          \* VkPhysicalDeviceMemoryProperties.memoryTypes
    memoryTypeBits,       \* VkMemoryRequirements.memoryTypeBits
    memoryPropertyFlags,  \* requested VkMemoryPropertyFlags
    memoryTypeIndex,      \* *memoryTypeIndex after vkGetMemoryTypeIndex
    memoryResult,         \* VkResult of vkGetMemoryTypeIndex
    setupPc,              \* position of the CPU thread in the constructor
    vertices,             \* bytes of the vertex array, VkRenderer.cpp 746-763
    bufferData,           \* buffer |-> contents of the memory bound to it
    memoryBound,          \* buffers and images that have memory bound
    hostWritten,          \* resources whose setup write through a mapping ended
    uniformWrites,        \* slot i |-> number of updates of its uniform block
    instanceExtensions,   \* names vkEnumerateInstanceExtensionProperties reports
    physicalDevices,      \* per physical device, the queueFlags of its families
    deviceExtensions,     \* names vkEnumerateDeviceExtensionProperties reports
    mPhysicalDevice,      \* index of the selected physical device
    mQueueFamilyIndex,    \* VkRenderer.cpp 174-186
    surfaceFormats,       \* formats vkGetPhysicalDeviceSurfaceFormatsKHR reports
    presentModes,         \* modes vkGetPhysicalDeviceSurfacePresentModesKHR reports
    surfaceFormatIndex,   \* VkRenderer.cpp 275-285
    presentModeIndex,     \* VkRenderer.cpp 296-306
    swapchainCreateInfo,  \* VkRenderer.cpp 308-321
    position,             \* one entry of Uniform::position, in hundredths
    positionTrace,        \* start value and the values the updates stored
    bufferPc,             \* vulkan-buffer: position of its CPU thread
    mCommandBuffer,       \* vulkan-buffer: its command buffer, [state, commands]
    mClearValue,          \* vulkan-buffer: number of updates of the clear colour
    apiCalls,             \* the Vulkan calls the constructor has made, in order
    memoryRequirements,   \* kind of resource |-> VkMemoryRequirements it gets
    sample,               \* the sample whose VkRenderer is constructed and destroyed
    lifetimePc,           \* position of the CPU thread in that object's lifetime
    lifetimeCalls,        \* the Vulkan calls made on that object's handles, in order
    textureCopy,          \* the texture copy loop: its buffers and its row counter
    shaderCompile,        \* vkCompileShader: its arguments and its outcome
    mDescriptorSets       \* descriptor set i |-> the buffer and image written to it

frameVars == <<swapchainImageCount, mFrameIndex, pc, swapchainImageIndex,
               framebuffer, presentInfo, lastResult, mFencesForSubmit,
               mFencesForAcquire, mSemaphores, mCommandBuffers, mUniformData,
               submissions, presents, acquiring, imageOwner, peReading,
               completed, displayed, steps, calls, slotHistory,
               imageOrderDiffers>>

memVars == <<memoryTypes, memoryTypeBits, memoryPropertyFlags,
             memoryTypeIndex, memoryResult>>

uploadVars == <<setupPc, vertices, bufferData, memoryBound, hostWritten,
                uniformWrites>>

selectVars == <<instanceExtensions, physicalDevices, deviceExtensions,
                mPhysicalDevice, mQueueFamilyIndex>>

swapchainVars == <<surfaceFormats, presentModes, surfaceFormatIndex,
                   presentModeIndex, swapchainCreateInfo>>

ruleVars == <<position, positionTrace>>

bufferVars == <<bufferPc, mCommandBuffer, mClearValue>>

allocVars == <<apiCalls, memoryRequirements>>

sampleVars == <<sample, lifetimePc, lifetimeCalls, textureCopy,
                shaderCompile>>

descriptorVars == <<mDescriptorSets>>

\* the variables the constructor's upload steps never change
staticVars == <<memVars, selectVars, swapchainVars, ruleVars, bufferVars,
                memoryRequirements, sampleVars, descriptorVars>>

\* the variables the frame loop and the upload never touch
pureVars == <<memVars, selectVars, swapchainVars, ruleVars, bufferVars,
              allocVars, sampleVars, descriptorVars>>

vars == <<frameVars, uploadVars, pureVars>>

----------------------------------------------------------------------------
(* Bounds of the model *)

\* largest number of swapchain images the surface hands out
MaxImages == 2

\* number of render() calls the event loop makes
MaxFrames == 5

\* largest memoryTypeCount of a memory-type table
MaxMemoryTypes == 2

\* largest number of bytes of vertex data
MaxBytes == 3

\* number of updates applied to one position entry
MaxUpdates == 10

\* largest number of physical devices the instance enumerates
MaxDevices == 2

\* largest number of queue families of one physical device
MaxFamilies == 2

\* largest number of surface formats the surface reports
MaxFormats == 2

\* largest number of present modes the surface reports
MaxModes == 2

----------------------------------------------------------------------------
(* Values *)

VK_SUCCESS == "VK_SUCCESS"

NoImage == -1

Slots == 0 .. (swapchainImageCount - 1)

Images == 0 .. (swapchainImageCount - 1)

\* results a fence wait, fence reset, command buffer call or submit can give
CallResults == {VK_SUCCESS, "VK_ERROR_DEVICE_LOST"}

\* results vkAcquireNextImageKHR and vkQueuePresentKHR can give
SwapchainResults == {VK_SUCCESS, "VK_SUBOPTIMAL_KHR", "VK_ERROR_OUT_OF_DATE_KHR"}

\* results vkResetCommandBuffer can give
ResetResults == {VK_SUCCESS, "VK_ERROR_OUT_OF_DEVICE_MEMORY"}

\* VkResult values that are no error: VK_SUCCESS and the status codes
StatusCodes == {VK_SUCCESS, "VK_SUBOPTIMAL_KHR", "VK_TIMEOUT", "VK_NOT_READY"}

\* only the VK_ERROR_* results end the process
VK_CHECK_ERROR_ErrorsOnly(vkResult, next) ==
    IF vkResult \notin StatusCodes THEN "abort" ELSE next

\* the macro: a result other than VK_SUCCESS ends the process
VK_CHECK_ERROR(vkResult, next) == IF vkResult # VK_SUCCESS THEN "abort" ELSE next

\* mFramebuffers[i] is built on mSwapchainImageViews[i]
mFramebuffers == [i \in Images |-> [attachment |-> i]]

\* a descriptor set nothing has been written to
NoDescriptors == [uniformBuffer |-> [kind |-> "none", index |-> 0],
                  image |-> [kind |-> "none", index |-> 0]]

mSwapchainImageExtent == [width |-> 2, height |-> 1]

ZeroCalls == [waitSubmit |-> 0, resetSubmit |-> 0, acquire |-> 0,
              waitAcquire |-> 0, resetAcquire |-> 0, submit |-> 0,
              present |-> 0, advance |-> 0]

Count(kind) == [calls EXCEPT ![kind] = @ + 1]

\* VkDeviceMemory handles: stagingMemory (802), mVertexMemory (853),
\* mUniformMemories[i] (924), mMemory (1002)
Memory(name, index) == [name |-> name, index |-> index]

stagingMemory == Memory("stagingMemory", 0)

mVertexMemory == Memory("mVertexMemory", 0)

mMemory == Memory("mMemory", 0)

mUniformMemories == [i \in Slots |-> Memory("mUniformMemories", i)]

NoMemory == Memory("none", 0)

NoResource == [kind |-> "none", index |-> 0]

VK_MEMORY_PROPERTY_DEVICE_LOCAL_BIT == 1

VK_MEMORY_PROPERTY_HOST_VISIBLE_BIT == 2

VK_MEMORY_PROPERTY_HOST_COHERENT_BIT == 4

\* the kinds of resource the constructor gives memory
ResourceKinds == {"stagingBuffer", "mVertexBuffer", "mUniformBuffers", "mImage"}

\* the buffers whose contents the model follows
Buffers == {"stagingBuffer", "mVertexBuffer"}

\* values of one byte, and the content of memory nothing has written yet
ByteValues == {"00", "ff"}

Uninitialized == "??"

\* 746-762: the constant vertex array, as bytes
VertexArray == <<"00", "ff", "ff">>

\* 763: vertexDataSize
vertexDataSize == Len(vertices)

\* a buffer or image, by the name of the variable that holds its handle
Resource(kind, index) == [kind |-> kind, index |-> index]

stagingBuffer == Resource("stagingBuffer", 0)

mVertexBuffer == Resource("mVertexBuffer", 0)

mImage == Resource("mImage", 0)

mUniformBuffers == [i \in Slots |-> Resource("mUniformBuffers", i)]

\* mPhysicalDevice when it holds no enumerated device
NoDevice == -1

\* the sentinels of 275 and 296
VK_FORMAT_MAX_ENUM == 2147483647

VK_PRESENT_MODE_MAX_ENUM_KHR == 2147483647

NoSwapchainCreateInfo ==
    [imageFormat |-> "none", imageColorSpace |-> "none", presentMode |-> "none"]

\* the staging buffer is released right after the submit
ConstructOrder_ReleaseBeforeWait ==
    <<"createStagingBuffer", "writeStagingBuffer", "createVertexBuffer",
      "beginCommandBuffer", "copyBuffer", "createUniformBuffers",
      "createTexture", "pipelineBarrier", "endCommandBuffer", "queueSubmit",
      "destroyStagingBuffer", "queueWaitIdle", "updateDescriptorSets">>

\* the one-shot command buffer is submitted before the uniform buffers and
\* the texture exist
ConstructOrder_SubmitBeforeTexture ==
    <<"createStagingBuffer", "writeStagingBuffer", "createVertexBuffer",
      "beginCommandBuffer", "copyBuffer", "pipelineBarrier",
      "endCommandBuffer", "queueSubmit", "createUniformBuffers",
      "createTexture", "queueWaitIdle", "destroyStagingBuffer",
      "updateDescriptorSets">>

\* the statements of the constructor from the staging buffer on
ConstructOrder ==
    <<"createStagingBuffer", "writeStagingBuffer", "createVertexBuffer",
      "beginCommandBuffer", "copyBuffer", "createUniformBuffers",
      "createTexture", "pipelineBarrier", "endCommandBuffer", "queueSubmit",
      "queueWaitIdle", "destroyStagingBuffer", "updateDescriptorSets">>

\* the statement that follows `step`; after the last one the object exists
NextSetupStep(step) ==
    LET k == CHOOSE n \in DOMAIN ConstructOrder : ConstructOrder[n] = step IN
        IF k = Len(ConstructOrder) THEN "constructed" ELSE ConstructOrder[k + 1]

----------------------------------------------------------------------------
(* The locals render() reads on entry *)

\* every call uses the submit fence of the first slot
fenceForSubmit_First == CHOOSE c \in Slots : \A d \in Slots : c <= d

fenceForSubmit == mFrameIndex

fenceForAcquire == mFrameIndex

commandBuffer_First == CHOOSE c \in Slots : \A d \in Slots : c <= d

commandBuffer == mFrameIndex

\* every call writes the uniform block of the first slot
uniformData_First == CHOOSE c \in Slots : \A d \in Slots : c <= d

uniformData == mFrameIndex

descriptorSet == mFrameIndex

\* every call uses the semaphore of the first slot
semaphore_First == CHOOSE c \in Slots : \A d \in Slots : c <= d

semaphore == mFrameIndex

\* VkRenderPassBeginInfo, VkRenderer.cpp 1347-1356
renderPassBeginInfo == [framebuffer |-> framebuffer]

\* the acquire is given no fence
acquireInfo_NoFence == [semaphores |-> {}, fences |-> {}]

\* arguments of vkAcquireNextImageKHR, VkRenderer.cpp 1315-1320
acquireInfo == [semaphores |-> {}, fences |-> {fenceForAcquire}]

\* VkSubmitInfo and the fence of vkQueueSubmit, VkRenderer.cpp 1421-1429
submitInfo == [waitSemaphores |-> {}, commandBuffers |-> {commandBuffer},
               signalSemaphores |-> {semaphore}, fences |-> {fenceForSubmit}]

\* the present request names no wait semaphore
MakePresentInfo_NoWait == [waitSemaphores |-> {},
                           imageIndex |-> swapchainImageIndex]

\* the present request names the image of the frame index
MakePresentInfo_FrameIndex == [waitSemaphores |-> {semaphore},
                               imageIndex |-> mFrameIndex]

\* VkPresentInfoKHR, VkRenderer.cpp 1434-1441
MakePresentInfo == [waitSemaphores |-> {semaphore},
                    imageIndex |-> swapchainImageIndex]

NoFramebuffer == [attachment |-> NoImage]

NoPresentInfo == [waitSemaphores |-> {}, imageIndex |-> NoImage]

NoAcquire == [image |-> NoImage, semaphores |-> {}]

\* number of the render() call in progress (0 for the first)
CurrentFrame == Len(slotHistory) - 1

----------------------------------------------------------------------------
(* The Uniform block: float position[8]; float ratio.  Positions are kept  *)
(* in hundredths.                                                          *)

PositionCount == 8

PositionStride == 4

PositionStep == 1

PositionLimit == 150

PositionReset == -150

ZeroUniform == [position |-> [k \in 0 .. (PositionCount - 1) |-> 0],
                ratio |-> [num |-> 0, den |-> 1]]

\* the entry is reset as soon as it reaches the limit
UpdatePosition_ResetAtLimit(p) ==
    IF p + PositionStep >= PositionLimit THEN PositionReset ELSE p + PositionStep

\* one pass of the body of the loop at 1302-1307 on one entry
UpdatePosition(p) ==
    IF p + PositionStep > PositionLimit THEN PositionReset ELSE p + PositionStep

\* 1302-1309: entries 0 and 4 are moved, the ratio is stored
UpdateUniformData(u) ==
    [position |-> [k \in 0 .. (PositionCount - 1) |->
                      IF k % PositionStride = 0
                      THEN UpdatePosition(u.position[k])
                      ELSE u.position[k]],
     ratio |-> [num |-> mSwapchainImageExtent.height,
                den |-> mSwapchainImageExtent.width]]

----------------------------------------------------------------------------
(* State after the constructor *)

\* every submit fence is created unsignaled
FencesForSubmitCreated_Unsignaled == [i \in Slots |-> FALSE]

\* 390-401: each fence of mFencesForSubmit is created with
\* VK_FENCE_CREATE_SIGNALED_BIT
FencesForSubmitCreated == [i \in Slots |-> TRUE]

\* 403-413: each fence of mFencesForAcquire is created without flags
FencesForAcquireCreated == [i \in Slots |-> FALSE]

FrameInit ==
    /\ mFrameIndex = 0
    /\ pc = "idle"
    /\ swapchainImageIndex = NoImage
    /\ framebuffer = NoFramebuffer
    /\ presentInfo = NoPresentInfo
    /\ lastResult = VK_SUCCESS
    /\ mFencesForSubmit = FencesForSubmitCreated
    /\ mFencesForAcquire = FencesForAcquireCreated
    /\ mSemaphores = [i \in Slots |-> FALSE]
    /\ mCommandBuffers = [i \in Slots |-> [state |-> "initial", commands |-> <<>>]]
    /\ mUniformData = [i \in Slots |-> ZeroUniform]
    /\ mDescriptorSets = [i \in Slots |-> NoDescriptors]
    /\ submissions = <<>>
    /\ presents = <<>>
    /\ acquiring = [i \in Slots |-> NoAcquire]
    /\ imageOwner = [j \in Images |-> "pe"]
    /\ peReading = [j \in Images |-> FALSE]
    /\ completed = {}
    /\ displayed = {}
    /\ steps = <<>>
    /\ calls = ZeroCalls
    /\ slotHistory = <<>>
    /\ imageOrderDiffers = FALSE

\* the memory types of a device with one device-local and one
\* host-visible, host-coherent type
TypicalMemoryTypes ==
    <<VK_MEMORY_PROPERTY_DEVICE_LOCAL_BIT,
      VK_MEMORY_PROPERTY_HOST_VISIBLE_BIT + VK_MEMORY_PROPERTY_HOST_COHERENT_BIT>>

MemIdle ==
    /\ memoryTypes = TypicalMemoryTypes
    /\ memoryTypeBits = 0
    /\ memoryPropertyFlags = 0
    /\ memoryTypeIndex = 0
    /\ memoryResult = "none"

\* no buffer or image exists yet
UploadIdle ==
    /\ bufferData = [b \in Buffers |-> <<>>]
    /\ memoryBound = {}
    /\ hostWritten = {}
    /\ uniformWrites = [i \in Slots |-> 0]

\* the constructor is about to create the staging buffer
UploadInit ==
    /\ setupPc = ConstructOrder[1]
    /\ UploadIdle

SelectIdle ==
    /\ instanceExtensions = {}
    /\ physicalDevices = <<>>
    /\ deviceExtensions = {}
    /\ mPhysicalDevice = NoDevice
    /\ mQueueFamilyIndex = 0

SwapchainIdle ==
    /\ surfaceFormats = <<>>
    /\ presentModes = <<>>
    /\ surfaceFormatIndex = VK_FORMAT_MAX_ENUM
    /\ presentModeIndex = VK_PRESENT_MODE_MAX_ENUM_KHR
    /\ swapchainCreateInfo = NoSwapchainCreateInfo

RuleIdle ==
    /\ position = 0
    /\ positionTrace = <<>>

\* sizeof(float)
sizeofFloat == 4

\* sizeof(Uniform): float position[8]; float ratio
sizeofUniform == (PositionCount + 1) * sizeofFloat

\* bytes of one texel of the texture, 1031
BytesPerTexel == 4

\* textureProperties.extent of the decoded texture
textureExtent == [width |-> 1, height |-> 1]

\* the size the create info of a resource of this kind asks for; an image
\* is declared by its extent
DeclaredSize(kind) ==
    CASE kind = "stagingBuffer" -> vertexDataSize
      [] kind = "mVertexBuffer" -> vertexDataSize
      [] kind = "mUniformBuffers" -> sizeofUniform
      [] kind = "mImage" ->
            BytesPerTexel * textureExtent.width * textureExtent.height

\* no call has been made; every resource needs what its create info
\* declares and may use either memory type
AllocIdle ==
    /\ apiCalls = <<>>
    /\ memoryRequirements =
          [k \in ResourceKinds |->
              [size |-> DeclaredSize(k), memoryTypeBits |-> 3]]

NoTextureCopy == [pc |-> "none"]

NoShaderCompile == [pc |-> "none"]

\* no VkRenderer lifetime, texture copy or shader compilation is under way
SampleIdle ==
    /\ sample = "none"
    /\ lifetimePc = "none"
    /\ lifetimeCalls = <<>>
    /\ textureCopy = NoTextureCopy
    /\ shaderCompile = NoShaderCompile

\* the vulkan-buffer program is not running
BufferIdle ==
    /\ bufferPc = "none"
    /\ mCommandBuffer = [state |-> "initial", commands |-> <<>>]
    /\ mClearValue = 0

\* the state in which the constructor reaches the vertex data (746): device,
\* swapchain and the per-slot objects of 380-425 exist
Init ==
    /\ swapchainImageCount \in 1 .. MaxImages
    /\ FrameInit
    /\ vertices = VertexArray
    /\ UploadInit
    /\ MemIdle
    /\ SelectIdle
    /\ SwapchainIdle
    /\ RuleIdle
    /\ BufferIdle
    /\ AllocIdle
    /\ SampleIdle

----------------------------------------------------------------------------
(* render(): the order of its statements *)

\* the uniform block is written before the submit fence is waited on
RenderOrder_UpdateFirst ==
    <<"update", "waitSubmit", "resetSubmit", "acquire", "waitAcquire",
      "resetAcquire", "resetCommandBuffer", "beginCommandBuffer",
      "recordCommands", "endCommandBuffer", "submit", "present", "advance">>

\* the uniform block is written after the image is acquired
RenderOrder_UpdateLate ==
    <<"waitSubmit", "resetSubmit", "acquire", "update", "waitAcquire",
      "resetAcquire", "resetCommandBuffer", "beginCommandBuffer",
      "recordCommands", "endCommandBuffer", "submit", "present", "advance">>

\* the submit fence is waited on but not reset
RenderOrder_NoResetSubmit ==
    <<"waitSubmit", "update", "acquire", "waitAcquire", "resetAcquire",
      "resetCommandBuffer", "beginCommandBuffer", "recordCommands",
      "endCommandBuffer", "submit", "present", "advance">>

RenderOrder == <<"waitSubmit", "resetSubmit", "update", "acquire",
                 "waitAcquire", "resetAcquire", "resetCommandBuffer",
                 "beginCommandBuffer", "recordCommands", "endCommandBuffer",
                 "submit", "present", "advance">>

IndexOf(step) == CHOOSE k \in 1 .. Len(RenderOrder) : RenderOrder[k] = step

\* the statement that follows `step`; render() returns after the last one
NextStep(step) ==
    IF IndexOf(step) = Len(RenderOrder) THEN "idle"
    ELSE RenderOrder[IndexOf(step) + 1]

Log(step) == Append(steps, step)

\* 1321: auto framebuffer = mFramebuffers[swapchainImageIndex]
FramebufferFor_FrameIndex(imageIndex) == mFramebuffers[mFrameIndex]

FramebufferFor(imageIndex) == mFramebuffers[imageIndex]

\* the increment without the wrap
NextFrameIndex_NoWrap == mFrameIndex + 1

\* the index of the first slot, whatever the current one
NextFrameIndex_Stuck == mFrameIndex

\* the index wraps one element past the end of the vectors
NextFrameIndex_WrapLate == (mFrameIndex + 1) % (swapchainImageCount + 1)

\* 1448: mFrameIndex = ++mFrameIndex % mSwapchainImages.size()
NextFrameIndex == (mFrameIndex + 1) % swapchainImageCount

\* the draw is recorded before the pipeline and the resources are bound
RecordedCommands_DrawFirst ==
    << [cmd |-> "vkCmdBeginRenderPass", arg |-> renderPassBeginInfo.framebuffer],
       [cmd |-> "vkCmdDraw", arg |-> "3,1,0,0"],
       [cmd |-> "vkCmdSetViewport", arg |-> mSwapchainImageExtent],
       [cmd |-> "vkCmdSetScissor", arg |-> mSwapchainImageExtent],
       [cmd |-> "vkCmdBindPipeline", arg |-> "mPipeline"],
       [cmd |-> "vkCmdBindVertexBuffers", arg |-> "mVertexBuffer"],
       [cmd |-> "vkCmdBindDescriptorSets", arg |-> descriptorSet],
       [cmd |-> "vkCmdEndRenderPass", arg |-> "none"] >>

\* 1358-1411: the commands recorded between begin and end
RecordedCommands ==
    << [cmd |-> "vkCmdBeginRenderPass", arg |-> renderPassBeginInfo.framebuffer],
       [cmd |-> "vkCmdSetViewport", arg |-> mSwapchainImageExtent],
       [cmd |-> "vkCmdSetScissor", arg |-> mSwapchainImageExtent],
       [cmd |-> "vkCmdBindPipeline", arg |-> "mPipeline"],
       [cmd |-> "vkCmdBindVertexBuffers", arg |-> "mVertexBuffer"],
       [cmd |-> "vkCmdBindDescriptorSets", arg |-> descriptorSet],
       [cmd |-> "vkCmdDraw", arg |-> "3,1,0,0"],
       [cmd |-> "vkCmdEndRenderPass", arg |-> "none"] >>

\* the framebuffers (by image index) a command sequence renders into
TargetsOf(commands) ==
    {commands[k].arg.attachment :
        k \in {n \in DOMAIN commands : commands[n].cmd = "vkCmdBeginRenderPass"}}

\* the buffers and images a recorded command makes the GPU access
ResourcesOf(command) ==
    CASE command.cmd = "vkCmdBindVertexBuffers" ->
            {Resource(command.arg, 0)}
      [] command.cmd = "vkCmdBindDescriptorSets" ->
            {mDescriptorSets[command.arg].uniformBuffer,
             mDescriptorSets[command.arg].image}
      [] command.cmd = "vkCmdCopyBuffer" ->
            {Resource(command.arg.src, 0), Resource(command.arg.dst, 0)}
      [] command.cmd = "vkCmdPipelineBarrier" ->
            {Resource(command.arg.image, 0)}
      [] OTHER -> {}

\* the buffers and images a command sequence makes the GPU access
ResourcesOfAll(commands) ==
    UNION {ResourcesOf(commands[n]) : n \in DOMAIN commands}

----------------------------------------------------------------------------
(* render(), one action per call *)

envVars == <<imageOwner, peReading, acquiring, submissions, presents,
             completed, displayed>>

\* 1285-1291: the event loop calls render()
RenderEnter ==
    /\ pc = "idle"
    /\ setupPc = "constructed"
    /\ Len(slotHistory) < MaxFrames
    /\ pc' = RenderOrder[1]
    /\ slotHistory' = Append(slotHistory, mFrameIndex)
    /\ steps' = <<>>
    /\ UNCHANGED <<swapchainImageCount, mFrameIndex, swapchainImageIndex,
                   framebuffer, presentInfo, lastResult, mFencesForSubmit,
                   mFencesForAcquire, mSemaphores, mCommandBuffers,
                   mUniformData, calls, imageOrderDiffers, envVars, uploadVars, pureVars>>

\* the wait returns without the fence being signaled
WaitForSubmitFence_NoWait ==
    /\ pc = "waitSubmit"
    /\ \E vkResult \in CallResults :
          /\ lastResult' = vkResult
          /\ pc' = VK_CHECK_ERROR(vkResult, NextStep("waitSubmit"))
    /\ steps' = Log("waitSubmit")
    /\ calls' = Count("waitSubmit")
    /\ UNCHANGED <<swapchainImageCount, mFrameIndex, swapchainImageIndex,
                   framebuffer, presentInfo, mFencesForSubmit,
                   mFencesForAcquire, mSemaphores, mCommandBuffers,
                   mUniformData, slotHistory, imageOrderDiffers, envVars,
                   uploadVars, pureVars>>

\* 1296: vkWaitForFences(fenceForSubmit), infinite timeout
WaitForSubmitFence ==
    /\ pc = "waitSubmit"
    /\ \E vkResult \in CallResults :
          /\ vkResult = VK_SUCCESS => mFencesForSubmit[fenceForSubmit]
          /\ lastResult' = vkResult
          /\ pc' = VK_CHECK_ERROR(vkResult, NextStep("waitSubmit"))
    /\ steps' = Log("waitSubmit")
    /\ calls' = Count("waitSubmit")
    /\ UNCHANGED <<swapchainImageCount, mFrameIndex, swapchainImageIndex,
                   framebuffer, presentInfo, mFencesForSubmit,
                   mFencesForAcquire, mSemaphores, mCommandBuffers,
                   mUniformData, slotHistory, imageOrderDiffers, envVars,
                   uploadVars, pureVars>>

\* 1297: vkResetFences(fenceForSubmit)
ResetSubmitFence ==
    /\ pc = "resetSubmit"
    /\ \E vkResult \in CallResults :
          /\ lastResult' = vkResult
          /\ pc' = VK_CHECK_ERROR(vkResult, NextStep("resetSubmit"))
          /\ mFencesForSubmit' =
                IF vkResult = VK_SUCCESS
                THEN [mFencesForSubmit EXCEPT ![fenceForSubmit] = FALSE]
                ELSE mFencesForSubmit
    /\ steps' = Log("resetSubmit")
    /\ calls' = Count("resetSubmit")
    /\ UNCHANGED <<swapchainImageCount, mFrameIndex, swapchainImageIndex,
                   framebuffer, presentInfo, mFencesForAcquire, mSemaphores,
                   mCommandBuffers, mUniformData, slotHistory,
                   imageOrderDiffers, envVars, uploadVars, pureVars>>

\* 1302-1309: the CPU writes the slot's mapped uniform block
UpdateUniform ==
    /\ pc = "update"
    /\ mUniformData' = [mUniformData EXCEPT
                           ![uniformData] = UpdateUniformData(@)]
    /\ uniformWrites' = [uniformWrites EXCEPT ![uniformData] = @ + 1]
    /\ pc' = NextStep("update")
    /\ steps' = Log("update")
    /\ UNCHANGED <<swapchainImageCount, mFrameIndex, swapchainImageIndex,
                   framebuffer, presentInfo, lastResult, mFencesForSubmit,
                   mFencesForAcquire, mSemaphores, mCommandBuffers, calls,
                   slotHistory, imageOrderDiffers, envVars, setupPc, vertices,
                   bufferData, memoryBound, hostWritten, pureVars>>

\* 1314-1321: vkAcquireNextImageKHR, infinite timeout, then the framebuffer
\* of the returned index is looked up.  The engine hands out any image it
\* owns; it may still be reading it.
AcquireNextImage ==
    /\ pc = "acquire"
    /\ \/ \E j \in Images :
             /\ imageOwner[j] = "pe"
             /\ swapchainImageIndex' = j
             /\ framebuffer' = FramebufferFor(j)
             /\ imageOwner' = [imageOwner EXCEPT ![j] = "app"]
             /\ acquiring' = [f \in Slots |->
                                IF f \in acquireInfo.fences
                                THEN [image |-> j,
                                      semaphores |-> acquireInfo.semaphores]
                                ELSE acquiring[f]]
             /\ imageOrderDiffers' = (imageOrderDiffers \/ j # mFrameIndex)
             /\ lastResult' = VK_SUCCESS
             /\ pc' = VK_CHECK_ERROR(VK_SUCCESS, NextStep("acquire"))
       \/ \E vkResult \in SwapchainResults \ {VK_SUCCESS} :
             /\ lastResult' = vkResult
             /\ pc' = VK_CHECK_ERROR(vkResult, NextStep("acquire"))
             /\ UNCHANGED <<swapchainImageIndex, framebuffer, imageOwner,
                            acquiring, imageOrderDiffers>>
    /\ steps' = Log("acquire")
    /\ calls' = Count("acquire")
    /\ UNCHANGED <<swapchainImageCount, mFrameIndex, presentInfo,
                   mFencesForSubmit, mFencesForAcquire, mSemaphores,
                   mCommandBuffers, mUniformData, slotHistory, peReading,
                   submissions, presents, completed, displayed, uploadVars, pureVars>>

\* the wait returns without the fence being signaled
WaitForAcquireFence_NoWait ==
    /\ pc = "waitAcquire"
    /\ \E vkResult \in CallResults :
          /\ lastResult' = vkResult
          /\ pc' = VK_CHECK_ERROR(vkResult, NextStep("waitAcquire"))
    /\ steps' = Log("waitAcquire")
    /\ calls' = Count("waitAcquire")
    /\ UNCHANGED <<swapchainImageCount, mFrameIndex, swapchainImageIndex,
                   framebuffer, presentInfo, mFencesForSubmit,
                   mFencesForAcquire, mSemaphores, mCommandBuffers,
                   mUniformData, slotHistory, imageOrderDiffers, envVars,
                   uploadVars, pureVars>>

\* 1326: vkWaitForFences(fenceForAcquire), infinite timeout
WaitForAcquireFence ==
    /\ pc = "waitAcquire"
    /\ \E vkResult \in CallResults :
          /\ vkResult = VK_SUCCESS => mFencesForAcquire[fenceForAcquire]
          /\ lastResult' = vkResult
          /\ pc' = VK_CHECK_ERROR(vkResult, NextStep("waitAcquire"))
    /\ steps' = Log("waitAcquire")
    /\ calls' = Count("waitAcquire")
    /\ UNCHANGED <<swapchainImageCount, mFrameIndex, swapchainImageIndex,
                   framebuffer, presentInfo, mFencesForSubmit,
                   mFencesForAcquire, mSemaphores, mCommandBuffers,
                   mUniformData, slotHistory, imageOrderDiffers, envVars,
                   uploadVars, pureVars>>

\* 1327: vkResetFences(fenceForAcquire)
ResetAcquireFence ==
    /\ pc = "resetAcquire"
    /\ \E vkResult \in CallResults :
          /\ lastResult' = vkResult
          /\ pc' = VK_CHECK_ERROR(vkResult, NextStep("resetAcquire"))
          /\ mFencesForAcquire' =
                IF vkResult = VK_SUCCESS
                THEN [mFencesForAcquire EXCEPT ![fenceForAcquire] = FALSE]
                ELSE mFencesForAcquire
    /\ steps' = Log("resetAcquire")
    /\ calls' = Count("resetAcquire")
    /\ UNCHANGED <<swapchainImageCount, mFrameIndex, swapchainImageIndex,
                   framebuffer, presentInfo, mFencesForSubmit, mSemaphores,
                   mCommandBuffers, mUniformData, slotHistory,
                   imageOrderDiffers, envVars, uploadVars, pureVars>>

\* 1332: vkResetCommandBuffer(commandBuffer, 0); the result is discarded
ResetCommandBuffer ==
    /\ pc = "resetCommandBuffer"
    /\ \E vkResult \in ResetResults :
          /\ lastResult' = vkResult
          /\ mCommandBuffers' =
                IF vkResult = VK_SUCCESS
                THEN [mCommandBuffers EXCEPT ![commandBuffer] =
                         [state |-> "initial", commands |-> <<>>]]
                ELSE mCommandBuffers
    /\ pc' = NextStep("resetCommandBuffer")
    /\ steps' = Log("resetCommandBuffer")
    /\ UNCHANGED <<swapchainImageCount, mFrameIndex, swapchainImageIndex,
                   framebuffer, presentInfo, mFencesForSubmit,
                   mFencesForAcquire, mSemaphores, mUniformData, calls,
                   slotHistory, imageOrderDiffers, envVars, uploadVars, pureVars>>

\* 1337-1342: vkBeginCommandBuffer, one-time submit; the pool allows the
\* implicit reset (371)
BeginCommandBuffer ==
    /\ pc = "beginCommandBuffer"
    /\ \E vkResult \in CallResults :
          /\ lastResult' = vkResult
          /\ pc' = VK_CHECK_ERROR(vkResult, NextStep("beginCommandBuffer"))
          /\ mCommandBuffers' =
                IF vkResult = VK_SUCCESS
                THEN [mCommandBuffers EXCEPT ![commandBuffer] =
                         [state |-> "recording", commands |-> <<>>]]
                ELSE mCommandBuffers
    /\ steps' = Log("beginCommandBuffer")
    /\ UNCHANGED <<swapchainImageCount, mFrameIndex, swapchainImageIndex,
                   framebuffer, presentInfo, mFencesForSubmit,
                   mFencesForAcquire, mSemaphores, mUniformData, calls,
                   slotHistory, imageOrderDiffers, envVars, uploadVars, pureVars>>

\* 1347-1411: the vkCmd* calls, none of which returns a result
RecordCommands ==
    /\ pc = "recordCommands"
    /\ mCommandBuffers' = [mCommandBuffers EXCEPT
                              ![commandBuffer].commands = @ \o RecordedCommands]
    /\ pc' = NextStep("recordCommands")
    /\ steps' = Log("recordCommands")
    /\ UNCHANGED <<swapchainImageCount, mFrameIndex, swapchainImageIndex,
                   framebuffer, presentInfo, lastResult, mFencesForSubmit,
                   mFencesForAcquire, mSemaphores, mUniformData, calls,
                   slotHistory, imageOrderDiffers, envVars, uploadVars, pureVars>>

\* 1416: vkEndCommandBuffer
EndCommandBuffer ==
    /\ pc = "endCommandBuffer"
    /\ \E vkResult \in CallResults :
          /\ lastResult' = vkResult
          /\ pc' = VK_CHECK_ERROR(vkResult, NextStep("endCommandBuffer"))
          /\ mCommandBuffers' =
                IF vkResult = VK_SUCCESS
                THEN [mCommandBuffers EXCEPT ![commandBuffer].state = "executable"]
                ELSE mCommandBuffers
    /\ steps' = Log("endCommandBuffer")
    /\ UNCHANGED <<swapchainImageCount, mFrameIndex, swapchainImageIndex,
                   framebuffer, presentInfo, mFencesForSubmit,
                   mFencesForAcquire, mSemaphores, mUniformData, calls,
                   slotHistory, imageOrderDiffers, envVars, uploadVars, pureVars>>

\* what the queue holds for one vkQueueSubmit
Submission(info) ==
    [frame |-> CurrentFrame,
     executed |-> FALSE,
     waitSemaphores |-> info.waitSemaphores,
     commandBuffers |-> info.commandBuffers,
     signalSemaphores |-> info.signalSemaphores,
     fences |-> info.fences,
     targets |-> UNION {TargetsOf(mCommandBuffers[c].commands) :
                           c \in info.commandBuffers},
     resources |-> UNION {ResourcesOfAll(mCommandBuffers[c].commands) :
                             c \in info.commandBuffers}]

\* 1421-1429: vkQueueSubmit(mQueue, submitInfo, fenceForSubmit)
QueueSubmit ==
    /\ pc = "submit"
    /\ \E vkResult \in CallResults :
          /\ lastResult' = vkResult
          /\ pc' = VK_CHECK_ERROR(vkResult, NextStep("submit"))
          /\ IF vkResult = VK_SUCCESS
             THEN /\ submissions' = Append(submissions, Submission(submitInfo))
                  /\ mCommandBuffers' =
                        [c \in Slots |->
                            IF c \in submitInfo.commandBuffers
                            THEN [mCommandBuffers[c] EXCEPT !.state = "pending"]
                            ELSE mCommandBuffers[c]]
             ELSE UNCHANGED <<submissions, mCommandBuffers>>
    /\ steps' = Log("submit")
    /\ calls' = Count("submit")
    /\ UNCHANGED <<swapchainImageCount, mFrameIndex, swapchainImageIndex,
                   framebuffer, presentInfo, mFencesForSubmit,
                   mFencesForAcquire, mSemaphores, mUniformData, slotHistory,
                   imageOrderDiffers, imageOwner, peReading, acquiring,
                   presents, completed, displayed, uploadVars, pureVars>>

\* 1434-1443: vkQueuePresentKHR(mQueue, presentInfo)
QueuePresent ==
    /\ pc = "present"
    /\ presentInfo' = MakePresentInfo
    /\ \E vkResult \in SwapchainResults :
          /\ lastResult' = vkResult
          /\ pc' = VK_CHECK_ERROR(vkResult, NextStep("present"))
          /\ IF vkResult = VK_SUCCESS
             THEN /\ presents' = Append(presents,
                                        [frame |-> CurrentFrame,
                                         waitSemaphores |-> presentInfo'.waitSemaphores,
                                         imageIndex |-> presentInfo'.imageIndex])
                  /\ imageOwner' = [imageOwner EXCEPT
                                       ![presentInfo'.imageIndex] = "queued"]
             ELSE UNCHANGED <<presents, imageOwner>>
    /\ steps' = Log("present")
    /\ calls' = Count("present")
    /\ UNCHANGED <<swapchainImageCount, mFrameIndex, swapchainImageIndex,
                   framebuffer, mFencesForSubmit, mFencesForAcquire,
                   mSemaphores, mCommandBuffers, mUniformData, slotHistory,
                   imageOrderDiffers, peReading, acquiring, submissions,
                   completed, displayed, uploadVars, pureVars>>

\* 1448: the frame index advances and render() returns; its locals end
AdvanceFrameIndex ==
    /\ pc = "advance"
    /\ mFrameIndex' = NextFrameIndex
    /\ pc' = NextStep("advance")
    /\ swapchainImageIndex' = NoImage
    /\ framebuffer' = NoFramebuffer
    /\ presentInfo' = NoPresentInfo
    /\ steps' = Log("advance")
    /\ calls' = Count("advance")
    /\ UNCHANGED <<swapchainImageCount, lastResult, mFencesForSubmit,
                   mFencesForAcquire, mSemaphores, mCommandBuffers,
                   mUniformData, slotHistory, imageOrderDiffers, envVars,
                   uploadVars, pureVars>>

----------------------------------------------------------------------------
(* vkGetMemoryTypeIndex (VkUtil.h 183-200) *)

\* the value stored on failure; it is no index of any table
UINT32_MAX == "UINT32_MAX"

\* VkMemoryPropertyFlags over DEVICE_LOCAL (1), HOST_VISIBLE (2) and
\* HOST_COHERENT (4)
PropertyFlagValues == 0 .. 7

\* a & b on unsigned integers
RECURSIVE BitAnd(_, _)
BitAnd(a, b) ==
    IF a = 0 \/ b = 0 THEN 0
    ELSE (a % 2) * (b % 2) + 2 * BitAnd(a \div 2, b \div 2)

\* 190-191: (propertyFlags & memoryPropertyFlags) == memoryPropertyFlags
HasProperties_Any(propertyFlags, wanted) ==
    BitAnd(propertyFlags, wanted) # 0

HasProperties(propertyFlags, wanted) ==
    BitAnd(propertyFlags, wanted) = wanted

\* 188-199: the loop from index i on; memoryTypes[i] of the code is
\* types[i + 1] here
RECURSIVE ScanMemoryTypes(_, _, _, _)
ScanMemoryTypes(types, typeBits, wanted, i) ==
    IF i = Len(types)
    THEN [result |-> "VK_ERROR_UNKNOWN", index |-> UINT32_MAX]
    ELSE IF /\ BitAnd(typeBits, 2 ^ i) # 0
            /\ HasProperties(types[i + 1], wanted)
         THEN [result |-> VK_SUCCESS, index |-> i]
         ELSE ScanMemoryTypes(types, typeBits, wanted, i + 1)

vkGetMemoryTypeIndex(types, typeBits, wanted) ==
    ScanMemoryTypes(types, typeBits, wanted, 0)

----------------------------------------------------------------------------
(* The constructor from the vertex data on (VkRenderer.cpp 746-1123): the   *)
(* staging upload, the uniform buffers, the texture and the one-shot        *)
(* submission.                                                              *)

\* the variables of the frame loop the constructor leaves alone
loopVars == <<swapchainImageCount, mFrameIndex, swapchainImageIndex,
              framebuffer, presentInfo, mFencesForSubmit, mFencesForAcquire,
              mSemaphores, presents, acquiring, imageOwner, peReading,
              completed, displayed, steps, calls, slotHistory,
              imageOrderDiffers>>

\* 868: auto commandBuffer = mCommandBuffers[0]
oneShotCommandBuffer == 0

\* a checked call of the constructor: failure ends the process, success
\* goes on to the next statement
SetupResult(vkResult, step) ==
    /\ lastResult' = vkResult
    /\ pc' = VK_CHECK_ERROR(vkResult, pc)
    /\ setupPc' = IF vkResult = VK_SUCCESS THEN NextSetupStep(step) ELSE setupPc

\* one Vulkan call of the constructor: the resource and the memory it
\* names and its other arguments and outputs
Call(name, object, memory, info) ==
    [call |-> name, object |-> object, memory |-> memory, info |-> info]

\* the calls made through VK_CHECK_ERROR; the others return nothing
CheckedCalls ==
    {"vkCreateBuffer", "vkCreateImage", "vkGetMemoryTypeIndex",
     "vkAllocateMemory", "vkBindBufferMemory", "vkBindImageMemory",
     "vkMapMemory", "vkCreateTexture", "vkCreateImageView",
     "vkBeginCommandBuffer",
     "vkEndCommandBuffer", "vkQueueSubmit", "vkQueueWaitIdle"}

\* the allocation has the size the create info declared
AllocationSize_Declared(requirements, declared) == declared

\* 799, 849, 920, 998: .allocationSize = <resource>MemoryRequirements.size
AllocationSize(requirements, declared) == requirements.size

\* 768-808 and its three repetitions: create the handle, query its memory
\* requirements, resolve the memory type, allocate, bind at offset 0
MemoryCalls(object, memory, flags) ==
    LET isImage == object.kind = "mImage"
        requirements == memoryRequirements[object.kind]
        found == vkGetMemoryTypeIndex(memoryTypes, requirements.memoryTypeBits,
                                      flags)
    IN  << Call(IF isImage THEN "vkCreateImage" ELSE "vkCreateBuffer",
                object, NoMemory, [size |-> DeclaredSize(object.kind)]),
           Call(IF isImage THEN "vkGetImageMemoryRequirements"
                ELSE "vkGetBufferMemoryRequirements",
                object, NoMemory, requirements),
           Call("vkGetMemoryTypeIndex", object, NoMemory,
                [requirements |-> requirements, flags |-> flags,
                 result |-> found.result, index |-> found.index]),
           Call("vkAllocateMemory", NoResource, memory,
                [allocationSize |->
                     AllocationSize(requirements, DeclaredSize(object.kind)),
                 memoryTypeIndex |-> found.index]),
           Call(IF isImage THEN "vkBindImageMemory" ELSE "vkBindBufferMemory",
                object, memory, [offset |-> 0]) >>

\* the first call of a block whose result is known to be a failure, or
\* one past the block
FirstFailure(block) ==
    LET failing == {k \in DOMAIN block :
                       /\ block[k].call = "vkGetMemoryTypeIndex"
                       /\ block[k].info.result # VK_SUCCESS}
    IN  IF failing = {} THEN Len(block) + 1
        ELSE CHOOSE k \in failing : \A n \in failing : k <= n

\* what a block of calls can come to: every call is made and succeeds, or
\* the calls up to a failing checked call are made
Outcomes(block) ==
    LET f == FirstFailure(block) IN
        (IF f > Len(block)
         THEN {[result |-> VK_SUCCESS, made |-> block]}
         ELSE {[result |-> block[f].info.result, made |-> SubSeq(block, 1, f)]})
        \cup {[result |-> vkResult, made |-> SubSeq(block, 1, k)] :
                 vkResult \in CallResults \ {VK_SUCCESS},
                 k \in {n \in 1 .. (f - 1) :
                           /\ block[n].call \in CheckedCalls
                           /\ block[n].call # "vkGetMemoryTypeIndex"}}

NoInfo == [offset |-> 0]

\* only host visibility is asked for
HostVisibleCoherent_VisibleOnly == VK_MEMORY_PROPERTY_HOST_VISIBLE_BIT

\* 788-790, 910-912, 988-990: VK_MEMORY_PROPERTY_HOST_VISIBLE_BIT |
\* VK_MEMORY_PROPERTY_HOST_COHERENT_BIT
HostVisibleCoherent ==
    VK_MEMORY_PROPERTY_HOST_VISIBLE_BIT + VK_MEMORY_PROPERTY_HOST_COHERENT_BIT

\* 768-808: the staging buffer and its memory
StagingBufferCalls == MemoryCalls(stagingBuffer, stagingMemory, HostVisibleCoherent)

\* 813-816: the vertex array is copied through a mapping of the first
\* vertexDataSize bytes
WriteStagingCalls ==
    << Call("vkMapMemory", NoResource, stagingMemory,
            [offset |-> 0, size |-> vertexDataSize]),
       Call("memcpy", stagingBuffer, stagingMemory, [size |-> vertexDataSize]),
       Call("vkUnmapMemory", NoResource, stagingMemory, NoInfo) >>

\* 821-858: the vertex buffer and its memory
VertexBufferCalls ==
    MemoryCalls(mVertexBuffer, mVertexMemory, VK_MEMORY_PROPERTY_DEVICE_LOCAL_BIT)

\* 883-936: the loop body for slot i and the slots after it; each
\* allocation is mapped whole and cleared and stays mapped
RECURSIVE UniformBufferCalls(_)
UniformBufferCalls(i) ==
    IF i = swapchainImageCount THEN <<>>
    ELSE MemoryCalls(mUniformBuffers[i], mUniformMemories[i], HostVisibleCoherent)
         \o << Call("vkMapMemory", NoResource, mUniformMemories[i],
                    [offset |-> 0, size |-> "VK_WHOLE_SIZE"]),
               Call("memset", mUniformBuffers[i], mUniformMemories[i],
                    [size |-> sizeofUniform]) >>
         \o UniformBufferCalls(i + 1)

\* 941-1039: the texture is decoded, the image gets memory and its rows
\* are copied through a mapping of the whole allocation
TextureImageCalls ==
    << Call("vkCreateTexture", NoResource, NoMemory, NoInfo) >>
    \o MemoryCalls(mImage, mMemory, HostVisibleCoherent)
    \o << Call("vkGetImageSubresourceLayout", mImage, NoMemory, NoInfo),
          Call("vkMapMemory", NoResource, mMemory,
               [offset |-> 0, size |-> "VK_WHOLE_SIZE"]),
          Call("memcpy", mImage, mMemory,
               [size |-> BytesPerTexel * textureExtent.width
                                       * textureExtent.height]),
          Call("vkUnmapMemory", NoResource, mMemory, NoInfo) >>

\* 941-1064: the image, then its view
TextureCalls ==
    TextureImageCalls
    \o << Call("vkCreateImageView", mImage, NoMemory, NoInfo) >>

\* 1118-1123: the staging memory is freed, then the staging buffer destroyed
DestroyStagingCalls ==
    << Call("vkFreeMemory", NoResource, stagingMemory, NoInfo),
       Call("vkDestroyBuffer", stagingBuffer, NoMemory, NoInfo) >>

\* memory as vkAllocateMemory hands it out
FreshMemory(size) == [n \in 1 .. size |-> Uninitialized]

\* 768-808: the staging buffer is created and bound to host-visible memory
CreateStagingBuffer ==
    /\ pc = "idle"
    /\ setupPc = "createStagingBuffer"
    /\ \E outcome \in Outcomes(StagingBufferCalls) :
       LET vkResult == outcome.result IN
          /\ apiCalls' = apiCalls \o outcome.made
          /\ SetupResult(vkResult, "createStagingBuffer")
          /\ IF vkResult = VK_SUCCESS
             THEN /\ bufferData' = [bufferData EXCEPT
                                       !["stagingBuffer"] = FreshMemory(vertexDataSize)]
                  /\ memoryBound' = memoryBound \cup {stagingBuffer}
             ELSE UNCHANGED <<bufferData, memoryBound>>
    /\ UNCHANGED <<loopVars, mCommandBuffers, mUniformData, submissions,
                   vertices, hostWritten, uniformWrites, staticVars>>

\* memcpy(dst, src, n) on the first n bytes of dst
Memcpy(dst, src, n) ==
    [k \in DOMAIN dst |-> IF k <= n THEN src[k] ELSE dst[k]]

\* 813-816: vkMapMemory, memcpy(stagingData, vertices.data(), vertexDataSize),
\* vkUnmapMemory
WriteStagingBuffer ==
    /\ pc = "idle"
    /\ setupPc = "writeStagingBuffer"
    /\ \E outcome \in Outcomes(WriteStagingCalls) :
       LET vkResult == outcome.result IN
          /\ apiCalls' = apiCalls \o outcome.made
          /\ SetupResult(vkResult, "writeStagingBuffer")
          /\ IF vkResult = VK_SUCCESS
             THEN /\ bufferData' = [bufferData EXCEPT
                                       !["stagingBuffer"] =
                                           Memcpy(@, vertices, vertexDataSize)]
                  /\ hostWritten' = hostWritten \cup {stagingBuffer}
             ELSE UNCHANGED <<bufferData, hostWritten>>
    /\ UNCHANGED <<loopVars, mCommandBuffers, mUniformData, submissions,
                   vertices, memoryBound, uniformWrites, staticVars>>

\* 821-858: the vertex buffer is created and bound to device-local memory
CreateVertexBuffer ==
    /\ pc = "idle"
    /\ setupPc = "createVertexBuffer"
    /\ \E outcome \in Outcomes(VertexBufferCalls) :
       LET vkResult == outcome.result IN
          /\ apiCalls' = apiCalls \o outcome.made
          /\ SetupResult(vkResult, "createVertexBuffer")
          /\ IF vkResult = VK_SUCCESS
             THEN /\ bufferData' = [bufferData EXCEPT
                                       !["mVertexBuffer"] = FreshMemory(vertexDataSize)]
                  /\ memoryBound' = memoryBound \cup {mVertexBuffer}
             ELSE UNCHANGED <<bufferData, memoryBound>>
    /\ UNCHANGED <<loopVars, mCommandBuffers, mUniformData, submissions,
                   vertices, hostWritten, uniformWrites, staticVars>>

\* 863-869: vkBeginCommandBuffer on mCommandBuffers[0], one-time submit
BeginOneShot ==
    /\ pc = "idle"
    /\ setupPc = "beginCommandBuffer"
    /\ \E vkResult \in CallResults :
          /\ SetupResult(vkResult, "beginCommandBuffer")
          /\ apiCalls' = Append(apiCalls, Call("vkBeginCommandBuffer", NoResource, NoMemory, NoInfo))
          /\ mCommandBuffers' =
                IF vkResult = VK_SUCCESS
                THEN [mCommandBuffers EXCEPT ![oneShotCommandBuffer] =
                         [state |-> "recording", commands |-> <<>>]]
                ELSE mCommandBuffers
    /\ UNCHANGED <<loopVars, mUniformData, submissions, vertices, bufferData,
                   memoryBound, hostWritten, uniformWrites, staticVars>>

\* the region copies one byte less than was written
bufferCopy_Short == [srcOffset |-> 0, dstOffset |-> 0, size |-> vertexDataSize - 1]

\* 874-876: VkBufferCopy{.size = vertexDataSize}; the offsets are zero
bufferCopy == [srcOffset |-> 0, dstOffset |-> 0, size |-> vertexDataSize]

\* 878: vkCmdCopyBuffer(commandBuffer, stagingBuffer, mVertexBuffer, 1, &bufferCopy)
CopyBuffer ==
    /\ pc = "idle"
    /\ setupPc = "copyBuffer"
    /\ mCommandBuffers' =
          [mCommandBuffers EXCEPT ![oneShotCommandBuffer].commands =
              Append(@, [cmd |-> "vkCmdCopyBuffer",
                         arg |-> [src |-> "stagingBuffer",
                                  dst |-> "mVertexBuffer",
                                  region |-> bufferCopy]])]
    /\ setupPc' = NextSetupStep("copyBuffer")
    /\ apiCalls' = Append(apiCalls, Call("vkCmdCopyBuffer", mVertexBuffer, NoMemory,
                                 [src |-> stagingBuffer, region |-> bufferCopy]))
    /\ UNCHANGED <<loopVars, pc, lastResult, mUniformData, submissions,
                   vertices, bufferData, memoryBound, hostWritten,
                   uniformWrites, staticVars>>

\* 880-936: per slot, the uniform buffer is created, bound, mapped and
\* cleared
CreateUniformBuffers ==
    /\ pc = "idle"
    /\ setupPc = "createUniformBuffers"
    /\ \E outcome \in Outcomes(UniformBufferCalls(0)) :
       LET vkResult == outcome.result IN
          /\ apiCalls' = apiCalls \o outcome.made
          /\ SetupResult(vkResult, "createUniformBuffers")
          /\ IF vkResult = VK_SUCCESS
             THEN /\ memoryBound' =
                        memoryBound \cup {mUniformBuffers[i] : i \in Slots}
                  /\ mUniformData' = [i \in Slots |-> ZeroUniform]
                  /\ hostWritten' =
                        hostWritten \cup {mUniformBuffers[i] : i \in Slots}
             ELSE UNCHANGED <<memoryBound, mUniformData, hostWritten>>
    /\ UNCHANGED <<loopVars, mCommandBuffers, submissions, vertices,
                   bufferData, uniformWrites, staticVars>>

\* 941-1064: the texture image is created, bound to host-visible memory
\* and filled row by row through the mapping
CreateTexture ==
    /\ pc = "idle"
    /\ setupPc = "createTexture"
    /\ \E outcome \in Outcomes(TextureCalls) :
       LET vkResult == outcome.result IN
          /\ apiCalls' = apiCalls \o outcome.made
          /\ SetupResult(vkResult, "createTexture")
          /\ IF vkResult = VK_SUCCESS
             THEN /\ memoryBound' = memoryBound \cup {mImage}
                  /\ hostWritten' = hostWritten \cup {mImage}
             ELSE UNCHANGED <<memoryBound, hostWritten>>
    /\ UNCHANGED <<loopVars, mCommandBuffers, mUniformData, submissions,
                   vertices, bufferData, uniformWrites, staticVars>>

\* 1069-1096: vkCmdPipelineBarrier with the layout transition of mImage
PipelineBarrier ==
    /\ pc = "idle"
    /\ setupPc = "pipelineBarrier"
    /\ mCommandBuffers' =
          [mCommandBuffers EXCEPT ![oneShotCommandBuffer].commands =
              Append(@, [cmd |-> "vkCmdPipelineBarrier",
                         arg |-> [image |-> "mImage",
                                  oldLayout |-> "PREINITIALIZED",
                                  newLayout |-> "SHADER_READ_ONLY_OPTIMAL"]])]
    /\ setupPc' = NextSetupStep("pipelineBarrier")
    /\ apiCalls' = Append(apiCalls, Call("vkCmdPipelineBarrier", mImage, NoMemory, NoInfo))
    /\ UNCHANGED <<loopVars, pc, lastResult, mUniformData, submissions,
                   vertices, bufferData, memoryBound, hostWritten,
                   uniformWrites, staticVars>>

\* 1101: vkEndCommandBuffer
EndOneShot ==
    /\ pc = "idle"
    /\ setupPc = "endCommandBuffer"
    /\ \E vkResult \in CallResults :
          /\ SetupResult(vkResult, "endCommandBuffer")
          /\ apiCalls' = Append(apiCalls, Call("vkEndCommandBuffer", NoResource, NoMemory, NoInfo))
          /\ mCommandBuffers' =
                IF vkResult = VK_SUCCESS
                THEN [mCommandBuffers EXCEPT
                         ![oneShotCommandBuffer].state = "executable"]
                ELSE mCommandBuffers
    /\ UNCHANGED <<loopVars, mUniformData, submissions, vertices, bufferData,
                   memoryBound, hostWritten, uniformWrites, staticVars>>

\* 1106-1110: VkSubmitInfo of the constructor; the fence argument of 1112
\* is VK_NULL_HANDLE
oneShotSubmitInfo ==
    [waitSemaphores |-> {}, commandBuffers |-> {oneShotCommandBuffer},
     signalSemaphores |-> {}, fences |-> {}]

\* 1112: vkQueueSubmit(mQueue, 1, &submitInfo, VK_NULL_HANDLE)
SubmitOneShot ==
    /\ pc = "idle"
    /\ setupPc = "queueSubmit"
    /\ \E vkResult \in CallResults :
          /\ SetupResult(vkResult, "queueSubmit")
          /\ apiCalls' = Append(apiCalls, Call("vkQueueSubmit", NoResource, NoMemory, NoInfo))
          /\ IF vkResult = VK_SUCCESS
             THEN /\ submissions' =
                        Append(submissions, Submission(oneShotSubmitInfo))
                  /\ mCommandBuffers' =
                        [c \in Slots |->
                            IF c \in oneShotSubmitInfo.commandBuffers
                            THEN [mCommandBuffers[c] EXCEPT !.state = "pending"]
                            ELSE mCommandBuffers[c]]
             ELSE UNCHANGED <<submissions, mCommandBuffers>>
    /\ UNCHANGED <<loopVars, mUniformData, vertices, bufferData, memoryBound,
                   hostWritten, uniformWrites, staticVars>>

\* the call returns while the queue still holds work
QueueWaitIdle_NoWait ==
    /\ pc = "idle"
    /\ setupPc = "queueWaitIdle"
    /\ \E vkResult \in CallResults :
          SetupResult(vkResult, "queueWaitIdle")
          /\ apiCalls' = Append(apiCalls, Call("vkQueueWaitIdle", NoResource, NoMemory, NoInfo))
    /\ UNCHANGED <<loopVars, mCommandBuffers, mUniformData, submissions,
                   vertices, bufferData, memoryBound, hostWritten,
                   uniformWrites, staticVars>>

\* 1113: vkQueueWaitIdle(mQueue) returns once the queue holds no work
QueueWaitIdle ==
    /\ pc = "idle"
    /\ setupPc = "queueWaitIdle"
    /\ \E vkResult \in CallResults :
          /\ vkResult = VK_SUCCESS => submissions = <<>>
          /\ SetupResult(vkResult, "queueWaitIdle")
          /\ apiCalls' = Append(apiCalls, Call("vkQueueWaitIdle", NoResource, NoMemory, NoInfo))
    /\ UNCHANGED <<loopVars, mCommandBuffers, mUniformData, submissions,
                   vertices, bufferData, memoryBound, hostWritten,
                   uniformWrites, staticVars>>

\* 1118-1123: vkFreeMemory(stagingMemory), vkDestroyBuffer(stagingBuffer)
DestroyStagingBuffer ==
    /\ pc = "idle"
    /\ setupPc = "destroyStagingBuffer"
    /\ bufferData' = [bufferData EXCEPT !["stagingBuffer"] = <<>>]
    /\ memoryBound' = memoryBound \ {stagingBuffer}
    /\ setupPc' = NextSetupStep("destroyStagingBuffer")
    /\ apiCalls' = apiCalls \o DestroyStagingCalls
    /\ UNCHANGED <<loopVars, pc, lastResult, mCommandBuffers, mUniformData,
                   submissions, vertices, hostWritten, uniformWrites, staticVars>>

\* every set is written the uniform buffer of the first slot
writeDescriptorSets_First(i) ==
    [uniformBuffer |-> mUniformBuffers[CHOOSE c \in Slots : \A d \in Slots : c <= d],
     image |-> mImage]

\* 1183-1218: the two VkWriteDescriptorSet of set i name mUniformBuffers[i]
\* (binding 0) and the view of mImage with mSampler (binding 1)
writeDescriptorSets(i) == [uniformBuffer |-> mUniformBuffers[i], image |-> mImage]

\* 1129-1225: the sampler and the descriptor pool are created, one
\* descriptor set per swapchain image is allocated (1178-1181) and each is
\* written by vkUpdateDescriptorSets (1183-1225); the constructor returns
UpdateDescriptorSets ==
    /\ pc = "idle"
    /\ setupPc = "updateDescriptorSets"
    /\ \E vkResult \in CallResults :
          /\ SetupResult(vkResult, "updateDescriptorSets")
          /\ mDescriptorSets' =
                IF vkResult = VK_SUCCESS
                THEN [i \in Slots |-> writeDescriptorSets(i)]
                ELSE mDescriptorSets
    /\ UNCHANGED <<loopVars, mCommandBuffers, mUniformData, submissions,
                   vertices, bufferData, memoryBound, hostWritten,
                   uniformWrites, memVars, selectVars, swapchainVars,
                   ruleVars, bufferVars, allocVars, sampleVars>>

\* vkCmdCopyBuffer as the queue executes it: region.size bytes from
\* src + srcOffset to dst + dstOffset; memory that was freed reads as
\* anything
CopyBytes(src, dst, region) ==
    [k \in DOMAIN dst |->
        IF k > region.dstOffset /\ k <= region.dstOffset + region.size
        THEN IF k - region.dstOffset + region.srcOffset \in DOMAIN src
             THEN src[k - region.dstOffset + region.srcOffset]
             ELSE Uninitialized
        ELSE dst[k]]

\* the effect of a recorded command sequence on the buffers
RECURSIVE ExecuteCommands(_, _)
ExecuteCommands(commands, data) ==
    IF commands = <<>> THEN data
    ELSE LET c == Head(commands)
             after == IF c.cmd = "vkCmdCopyBuffer"
                      THEN [data EXCEPT ![c.arg.dst] =
                               CopyBytes(data[c.arg.src], @, c.arg.region)]
                      ELSE data
         IN ExecuteCommands(Tail(commands), after)

\* the effect of the command buffers of one submission, in order
RECURSIVE ExecuteCommandBuffers(_, _)
ExecuteCommandBuffers(buffers, data) ==
    IF buffers = {} THEN data
    ELSE LET c == CHOOSE b \in buffers : \A d \in buffers : b <= d IN
             ExecuteCommandBuffers(buffers \ {c},
                                   ExecuteCommands(mCommandBuffers[c].commands, data))

----------------------------------------------------------------------------
(* The device: graphics queue and presentation engine *)

\* submissions whose command buffers the queue has not finished executing
Unexecuted == {k \in DOMAIN submissions : ~submissions[k].executed}

\* the queue finishes executing its oldest unfinished submission: the command
\* buffers leave the pending state (one-time submit: they become invalid)
\* and the semaphores of 1425-1426 are signaled
GpuExecute ==
    /\ Unexecuted # {}
    /\ LET k == CHOOSE n \in Unexecuted : \A m \in Unexecuted : n <= m
           s == submissions[k] IN
          /\ \A w \in s.waitSemaphores : mSemaphores[w]
          /\ mSemaphores' = [i \in Slots |->
                               IF i \in s.signalSemaphores THEN TRUE
                               ELSE IF i \in s.waitSemaphores THEN FALSE
                               ELSE mSemaphores[i]]
          /\ mCommandBuffers' =
                [c \in Slots |->
                    IF c \in s.commandBuffers /\ mCommandBuffers[c].state = "pending"
                    THEN [mCommandBuffers[c] EXCEPT !.state = "invalid"]
                    ELSE mCommandBuffers[c]]
          /\ bufferData' = ExecuteCommandBuffers(s.commandBuffers, bufferData)
          /\ completed' = completed \cup {s.frame}
          /\ submissions' = [submissions EXCEPT ![k].executed = TRUE]
    /\ UNCHANGED <<swapchainImageCount, mFrameIndex, pc, swapchainImageIndex,
                   framebuffer, presentInfo, lastResult, mFencesForSubmit,
                   mFencesForAcquire, mUniformData, presents, acquiring,
                   imageOwner, peReading, displayed, steps, calls,
                   slotHistory, imageOrderDiffers, setupPc, vertices,
                   memoryBound, hostWritten, uniformWrites, pureVars>>

\* the fence given to vkQueueSubmit at 1429 is signaled, after all work of
\* the submission has finished; fences signal in submission order
GpuSignalFence ==
    /\ submissions # <<>>
    /\ Head(submissions).executed
    /\ mFencesForSubmit' = [i \in Slots |->
                              IF i \in Head(submissions).fences THEN TRUE
                              ELSE mFencesForSubmit[i]]
    /\ submissions' = Tail(submissions)
    /\ UNCHANGED <<swapchainImageCount, mFrameIndex, pc, swapchainImageIndex,
                   framebuffer, presentInfo, lastResult, mFencesForAcquire,
                   mSemaphores, mCommandBuffers, mUniformData, presents,
                   acquiring, imageOwner, peReading, completed, displayed,
                   steps, calls, slotHistory, imageOrderDiffers, uploadVars, pureVars>>

\* the engine processes its oldest present request once the semaphores of
\* 1436-1437 are signaled: it consumes them and starts reading the image
PresentProcess ==
    /\ presents # <<>>
    /\ LET p == Head(presents) IN
          /\ \A w \in p.waitSemaphores : mSemaphores[w]
          /\ mSemaphores' = [i \in Slots |->
                               IF i \in p.waitSemaphores THEN FALSE
                               ELSE mSemaphores[i]]
          /\ imageOwner' = [imageOwner EXCEPT ![p.imageIndex] = "pe"]
          /\ peReading' = [peReading EXCEPT ![p.imageIndex] = TRUE]
          /\ displayed' = displayed \cup {p.frame}
    /\ presents' = Tail(presents)
    /\ UNCHANGED <<swapchainImageCount, mFrameIndex, pc, swapchainImageIndex,
                   framebuffer, presentInfo, lastResult, mFencesForSubmit,
                   mFencesForAcquire, mCommandBuffers, mUniformData,
                   submissions, acquiring, completed, steps, calls,
                   slotHistory, imageOrderDiffers, uploadVars, pureVars>>

\* the engine stops reading an image it displayed
PresentRelease ==
    /\ \E j \in Images :
          /\ peReading[j]
          /\ peReading' = [peReading EXCEPT ![j] = FALSE]
    /\ UNCHANGED <<swapchainImageCount, mFrameIndex, pc, swapchainImageIndex,
                   framebuffer, presentInfo, lastResult, mFencesForSubmit,
                   mFencesForAcquire, mSemaphores, mCommandBuffers,
                   mUniformData, submissions, presents, acquiring, imageOwner,
                   completed, displayed, steps, calls, slotHistory,
                   imageOrderDiffers, uploadVars, pureVars>>

\* the engine hands an acquired image over: the fence given at 1319 (and
\* the semaphore given at 1318, had there been one) is signaled
AcquireComplete ==
    /\ \E f \in Slots :
          /\ acquiring[f] # NoAcquire
          /\ ~peReading[acquiring[f].image]
          /\ mFencesForAcquire' = [mFencesForAcquire EXCEPT ![f] = TRUE]
          /\ mSemaphores' = [i \in Slots |->
                               IF i \in acquiring[f].semaphores THEN TRUE
                               ELSE mSemaphores[i]]
          /\ acquiring' = [acquiring EXCEPT ![f] = NoAcquire]
    /\ UNCHANGED <<swapchainImageCount, mFrameIndex, pc, swapchainImageIndex,
                   framebuffer, presentInfo, lastResult, mFencesForSubmit,
                   mCommandBuffers, mUniformData, submissions, presents,
                   imageOwner, peReading, completed, displayed, steps, calls,
                   slotHistory, imageOrderDiffers, uploadVars, pureVars>>

Render ==
    \/ RenderEnter
    \/ WaitForSubmitFence
    \/ ResetSubmitFence
    \/ UpdateUniform
    \/ AcquireNextImage
    \/ WaitForAcquireFence
    \/ ResetAcquireFence
    \/ ResetCommandBuffer
    \/ BeginCommandBuffer
    \/ RecordCommands
    \/ EndCommandBuffer
    \/ QueueSubmit
    \/ QueuePresent
    \/ AdvanceFrameIndex

Device ==
    \/ GpuExecute
    \/ GpuSignalFence
    \/ PresentProcess
    \/ PresentRelease
    \/ AcquireComplete

Construct ==
    \/ CreateStagingBuffer
    \/ WriteStagingBuffer
    \/ CreateVertexBuffer
    \/ BeginOneShot
    \/ CopyBuffer
    \/ CreateUniformBuffers
    \/ CreateTexture
    \/ PipelineBarrier
    \/ EndOneShot
    \/ SubmitOneShot
    \/ QueueWaitIdle
    \/ DestroyStagingBuffer
    \/ UpdateDescriptorSets

Next == Construct \/ Render \/ Device

Spec == Init /\ [][Next]_vars

----------------------------------------------------------------------------
(* The upload alone, for every vertex array within the bound *)

UploadSpecInit ==
    /\ swapchainImageCount = 1
    /\ FrameInit
    /\ vertices \in UNION {[1 .. n -> ByteValues] : n \in 1 .. MaxBytes}
    /\ UploadInit
    /\ MemIdle
    /\ SelectIdle
    /\ SwapchainIdle
    /\ RuleIdle
    /\ BufferIdle
    /\ AllocIdle
    /\ SampleIdle

UploadNext == Construct \/ GpuExecute \/ GpuSignalFence

SpecUpload == UploadSpecInit /\ [][UploadNext]_vars

----------------------------------------------------------------------------
(* vkGetMemoryTypeIndex alone, for every table and request *)

\* every table, requirement and request within the bounds
MemInit ==
    /\ swapchainImageCount = 1
    /\ FrameInit
    /\ vertices = VertexArray
    /\ UploadInit
    /\ SelectIdle
    /\ SwapchainIdle
    /\ RuleIdle
    /\ BufferIdle
    /\ AllocIdle
    /\ SampleIdle
    /\ \E n \in 0 .. MaxMemoryTypes :
          memoryTypes \in [1 .. n -> PropertyFlagValues]
    /\ memoryTypeBits \in 0 .. (2 ^ (MaxMemoryTypes + 1) - 1)
    /\ memoryPropertyFlags \in PropertyFlagValues
    /\ memoryTypeIndex = 0
    /\ memoryResult = "none"

\* a caller resolves a memory type, as at VkRenderer.cpp 909-913
GetMemoryTypeIndex ==
    /\ memoryResult = "none"
    /\ LET found == vkGetMemoryTypeIndex(memoryTypes, memoryTypeBits,
                                         memoryPropertyFlags) IN
          /\ memoryResult' = found.result
          /\ memoryTypeIndex' = found.index
    /\ UNCHANGED <<frameVars, uploadVars, selectVars, swapchainVars, ruleVars,
                   bufferVars, allocVars, sampleVars, descriptorVars,
                   memoryTypes, memoryTypeBits, memoryPropertyFlags>>

MemNext == GetMemoryTypeIndex

SpecMem == MemInit /\ [][MemNext]_vars

----------------------------------------------------------------------------
(* Properties of the frame loop *)

\* the slot a render() call used
SlotOf(frame) == slotHistory[frame + 1]

\* the CPU is between the command buffer reset and the submit
RecordingSteps == {"resetCommandBuffer", "beginCommandBuffer",
                   "recordCommands", "endCommandBuffer", "submit"}

\* earlier render() calls that used the slot of the current one
EarlierUses == {m \in 0 .. (CurrentFrame - 1) : SlotOf(m) = mFrameIndex}

\* C1: while the CPU resets, records or is about to submit slot i's command
\* buffer for its (k+1)-th use, the fence of every earlier submission made
\* on slot i has been signaled: none of them is still held by the queue,
\* and the GPU finished each of them.
C1_FenceBeforeRerecord ==
    pc \in RecordingSteps =>
        /\ \A k \in DOMAIN submissions : SlotOf(submissions[k].frame) # mFrameIndex
        /\ EarlierUses \subseteq completed

\* a slot is re-recorded while another slot's submission is still in the queue
C1_Witness ==
    /\ pc = "beginCommandBuffer"
    /\ EarlierUses # {}
    /\ submissions # <<>>

\* C2: the framebuffer the render pass begins on and the image index handed
\* to present are those of the index vkAcquireNextImageKHR returned in the
\* same call, for every N and every returned index.
C2_AcquiredIndexUsed ==
    /\ pc \in {"endCommandBuffer", "submit", "present", "advance"} =>
          TargetsOf(mCommandBuffers[commandBuffer].commands) = {swapchainImageIndex}
    /\ pc = "advance" => presentInfo.imageIndex = swapchainImageIndex

\* a call has presented an acquired image whose index is not the frame index
C2_Witness ==
    /\ pc = "advance"
    /\ swapchainImageIndex # mFrameIndex
    /\ presentInfo.imageIndex = swapchainImageIndex
    /\ TargetsOf(mCommandBuffers[commandBuffer].commands) = {swapchainImageIndex}

\* C3: a submission that renders into image j exists only after the engine
\* stopped reading j and the acquire fence was signaled and waited on; the
\* acquire signals no semaphore and the submission waits on none.
C3_AcquireFenceBeforeRender ==
    /\ \A k \in DOMAIN submissions :
          /\ submissions[k].waitSemaphores = {}
          /\ ~submissions[k].executed =>
                \A j \in submissions[k].targets : ~peReading[j]
    /\ \A f \in Slots : acquiring[f].semaphores = {}
    /\ pc \in RecordingSteps =>
          /\ acquiring[fenceForAcquire] = NoAcquire
          /\ ~peReading[swapchainImageIndex]

\* a submission renders into an image that an earlier call presented
C3_Witness ==
    \E k \in DOMAIN submissions :
        /\ ~submissions[k].executed
        /\ \E m \in displayed : m < submissions[k].frame
        /\ submissions[k].targets # {}

\* C4: the engine displays the image of a render() call only after the GPU
\* finished that call's submission; a present request waits on exactly the
\* semaphore of its slot, which only the submission of the same slot signals
\* (the constructor's submission signals none).
C4_PresentAfterRender ==
    /\ displayed \subseteq completed
    /\ \A k \in DOMAIN presents :
          presents[k].waitSemaphores = {SlotOf(presents[k].frame)}
    /\ \A k \in DOMAIN submissions :
          submissions[k].signalSemaphores =
              IF submissions[k].frame < 0 THEN {}
              ELSE {SlotOf(submissions[k].frame)}
    /\ \A j \in Images : peReading[j] =>
          \A k \in Unexecuted : j \notin submissions[k].targets

\* the engine has displayed a frame while a later submission is executing
C4_Witness ==
    /\ displayed # {}
    /\ Unexecuted # {}
    /\ \E j \in Images : peReading[j]

\* submissions of command buffer c that the GPU has not finished
PendingOn(c) == {k \in Unexecuted : c \in submissions[k].commandBuffers}

\* C5: every slot has at most one submission the GPU has not finished, a
\* command buffer is pending exactly while it has one, and the command
\* buffer about to be reset is not pending.
C5_OneInFlightPerSlot ==
    /\ \A c \in Slots :
          /\ Cardinality(PendingOn(c)) <= 1
          /\ (mCommandBuffers[c].state = "pending") = (PendingOn(c) # {})
    /\ pc \in {"resetCommandBuffer", "beginCommandBuffer", "recordCommands"} =>
          mCommandBuffers[commandBuffer].state # "pending"

\* a used command buffer is about to be reset while another one is pending
C5_Witness ==
    /\ pc = "resetCommandBuffer"
    /\ mCommandBuffers[commandBuffer].state = "invalid"
    /\ \E c \in Slots : mCommandBuffers[c].state = "pending"

\* the submissions held by the queue that make the GPU access a resource
UsersOf(resource) ==
    {k \in DOMAIN submissions : resource \in submissions[k].resources}

\* the steps the current render() call has made
StepsMade == {steps[n] : n \in DOMAIN steps}

\* C13: whenever the CPU writes slot i's mapped uniform block, the queue
\* holds no submission that reads slot i's uniform buffer; the write is made
\* by the render() call of slot i, after its wait on the slot's submit
\* fence returned and before it submits.
C13_UniformWriteUnread ==
    [][\A i \in Slots :
          (uniformWrites'[i] # uniformWrites[i]
              \/ mUniformData'[i] # mUniformData[i]) =>
             /\ UsersOf(mUniformBuffers[i]) = {}
             /\ i = mFrameIndex
             /\ "waitSubmit" \in StepsMade
             /\ "submit" \notin StepsMade
             /\ pc' # "submit"]_vars

\* a slot used before has just been written while the submission of
\* another slot is still in the queue
C13_Witness ==
    /\ pc = "acquire"
    /\ uniformWrites[mFrameIndex] >= 2
    /\ \E k \in DOMAIN submissions :
          /\ ~submissions[k].executed
          /\ \E j \in Slots : j # mFrameIndex
                                /\ mUniformBuffers[j] \in submissions[k].resources

\* signal operations on semaphore i that are queued or not yet consumed
OutstandingSignals(i) ==
    Cardinality({k \in Unexecuted : i \in submissions[k].signalSemaphores})
        + (IF mSemaphores[i] THEN 1 ELSE 0)

\* present requests that still wait on semaphore i
PendingWaits(i) == {k \in DOMAIN presents : i \in presents[k].waitSemaphores}

\* render() calls whose submission or present request the device still holds
InFlight ==
    {submissions[k].frame : k \in {n \in DOMAIN submissions :
                                       submissions[n].frame >= 0}}
        \cup {presents[k].frame : k \in DOMAIN presents}

\* C14: a semaphore never has two outstanding signals nor two pending
\* waits, each submit fence and command buffer is named by at most one
\* submission in the queue, and when the CPU is about to queue slot i's
\* submission the semaphore of slot i is unsignaled with no signal queued
\* and no present waiting on it: every earlier call on the slot was
\* presented and its signal consumed.
C14_OneFramePerSlotResource ==
    /\ \A i \in Slots :
          /\ OutstandingSignals(i) <= 1
          /\ Cardinality(PendingWaits(i)) <= 1
          /\ Cardinality({k \in DOMAIN submissions :
                             i \in submissions[k].fences}) <= 1
          /\ Cardinality({k \in DOMAIN submissions :
                             i \in submissions[k].commandBuffers}) <= 1
          /\ Cardinality({k \in DOMAIN submissions :
                             mUniformBuffers[i] \in submissions[k].resources}) <= 1
    /\ pc = "submit" =>
          /\ OutstandingSignals(semaphore) = 0
          /\ PendingWaits(semaphore) = {}
          /\ EarlierUses \subseteq displayed
          /\ \A m \in InFlight : SlotOf(m) # mFrameIndex

\* a slot used before is about to be submitted again while the signal of
\* another slot's call is still outstanding
C14_Witness ==
    /\ pc = "submit"
    /\ EarlierUses # {}
    /\ \E j \in Slots : j # mFrameIndex /\ OutstandingSignals(j) = 1
    /\ InFlight # {}

\* the order of the steps of one render() call
StepOrder ==
    <<"waitSubmit", "resetSubmit", "update", "acquire", "waitAcquire",
      "resetAcquire", "resetCommandBuffer", "beginCommandBuffer",
      "recordCommands", "endCommandBuffer", "submit", "present", "advance">>

\* C6: the steps a render() call has made are the first steps of the order
\* wait submit fence, reset it, update uniform, acquire, wait acquire fence,
\* reset it, record (reset, begin, commands, end), submit, present, advance;
\* the CPU is at the next step of that order, and a call that returned made
\* all of them once.
C6_StepOrder ==
    /\ Len(steps) <= Len(StepOrder)
    /\ steps = SubSeq(StepOrder, 1, Len(steps))
    /\ pc \notin {"idle", "abort"} => pc = StepOrder[Len(steps) + 1]
    /\ (pc = "idle" /\ slotHistory # <<>>) => steps = StepOrder

\* a second or later call has returned
C6_Witness ==
    /\ pc = "idle"
    /\ Len(slotHistory) >= 2
    /\ steps = StepOrder

\* C7: the frame index starts at 0, stays in 0..N-1, is the number of
\* returned calls modulo N, keeps the value the call started with until the
\* call's last step (so a call that aborts leaves it), and only that last
\* step, which returns from render(), changes it, to (old + 1) mod N.
C7_FrameIndex ==
    /\ mFrameIndex = 0
    /\ [](/\ mFrameIndex \in Slots
          /\ mFrameIndex = calls.advance % swapchainImageCount
          /\ (pc # "idle" /\ slotHistory # <<>>) =>
                /\ mFrameIndex = SlotOf(CurrentFrame)
                /\ calls.advance = CurrentFrame
          /\ pc = "idle" => calls.advance = Len(slotHistory))
    /\ [][mFrameIndex' # mFrameIndex =>
            /\ pc = "advance"
            /\ pc' = "idle"
            /\ mFrameIndex' = (mFrameIndex + 1) % swapchainImageCount]_vars

\* with two images the index has wrapped and advanced again
C7_Witness ==
    /\ pc = "idle"
    /\ swapchainImageCount = 2
    /\ calls.advance = 3
    /\ mFrameIndex = 1

\* C8: after k returned calls every kind of call was made k times (waits
\* and resets of submit fences, acquires, waits and resets of acquire
\* fences, submits, presents) and call m used slot m mod N; with N = 2 and
\* k = 5 the slots were 0,1,0,1,0.
C8_CallCounts ==
    pc = "idle" =>
        LET k == Len(slotHistory) IN
            /\ \A kind \in DOMAIN calls : calls[kind] = k
            /\ \A m \in 0 .. (k - 1) : SlotOf(m) = m % swapchainImageCount
            /\ (swapchainImageCount = 2 /\ k = 5) =>
                  slotHistory = <<0, 1, 0, 1, 0>>

\* five calls with two images, the image indices not following the slots
C8_Witness ==
    /\ pc = "idle"
    /\ swapchainImageCount = 2
    /\ Len(slotHistory) = 5
    /\ calls.submit = 5
    /\ calls.present = 5
    /\ imageOrderDiffers

----------------------------------------------------------------------------
(* Ownership of the per-slot resources *)

\* everything slot j owns
SlotState(j) ==
    [commandBuffer |-> mCommandBuffers[j],
     fenceForSubmit |-> mFencesForSubmit[j],
     fenceForAcquire |-> mFencesForAcquire[j],
     semaphore |-> mSemaphores[j],
     uniformData |-> mUniformData[j]]

\* the step is one of the CPU thread (constructor or render())
CpuStep == pc' # pc \/ setupPc' # setupPc

\* the positions inside render()
RenderSteps == {StepOrder[n] : n \in DOMAIN StepOrder}

\* the device holds a submission, present request or acquire made by a
\* render() call of slot j
DeviceWorkOf(j) ==
    \/ \E k \in DOMAIN submissions :
          submissions[k].frame >= 0 /\ SlotOf(submissions[k].frame) = j
    \/ \E k \in DOMAIN presents : SlotOf(presents[k].frame) = j
    \/ acquiring[j] # NoAcquire

\* the device holds the submission the constructor made
DeviceWorkOfSetup == \E k \in DOMAIN submissions : submissions[k].frame < 0

\* the step changes nothing of slot j but its command buffer
OnlyCommandBufferChanges(j) ==
    /\ mFencesForSubmit'[j] = mFencesForSubmit[j]
    /\ mFencesForAcquire'[j] = mFencesForAcquire[j]
    /\ mSemaphores'[j] = mSemaphores[j]
    /\ mUniformData'[j] = mUniformData[j]

\* C15 as stated: a slot's command buffer, fences, semaphore and uniform
\* data change only in steps of a render() call whose frame index is the
\* slot's index, or in device steps completing work such a call queued; the
\* constructor and the work it queues change none of them.
C15_OnlyOwnRenderMutates ==
    [][\A j \in Slots :
          SlotState(j)' # SlotState(j) =>
             IF CpuStep
             THEN setupPc = "constructed" /\ pc \in RenderSteps /\ j = mFrameIndex
             ELSE DeviceWorkOf(j)]_vars

\* C15 amended: once the constructor has returned, a slot's resources change
\* only in steps of a render() call of that slot or in device steps
\* completing such a call's work.  Before that the constructor records its
\* one-shot upload into the command buffer of slot 0 and submits it, and
\* the queue executes it: only that command buffer changes, and when the
\* constructor returns it is invalid and still holds the copy and the
\* barrier, every other slot resource being as created.
C15_OwnRenderAfterSetup ==
    /\ []((setupPc = "constructed" /\ slotHistory = <<>>) =>
            \A j \in Slots :
               /\ mFencesForSubmit[j] /\ ~mFencesForAcquire[j] /\ ~mSemaphores[j]
               /\ mUniformData[j] = ZeroUniform
               /\ j # oneShotCommandBuffer =>
                     mCommandBuffers[j] = [state |-> "initial", commands |-> <<>>]
               /\ j = oneShotCommandBuffer =>
                     /\ mCommandBuffers[j].state = "invalid"
                     /\ Len(mCommandBuffers[j].commands) = 2
                     /\ mCommandBuffers[j].commands[1].cmd = "vkCmdCopyBuffer"
                     /\ mCommandBuffers[j].commands[2].cmd = "vkCmdPipelineBarrier")
    /\ [][\A j \in Slots :
            SlotState(j)' # SlotState(j) =>
               IF CpuStep
               THEN IF setupPc = "constructed"
                    THEN pc \in RenderSteps /\ j = mFrameIndex
                    ELSE j = oneShotCommandBuffer /\ OnlyCommandBufferChanges(j)
               ELSE \/ DeviceWorkOf(j)
                    \/ /\ DeviceWorkOfSetup
                       /\ j = oneShotCommandBuffer
                       /\ OnlyCommandBufferChanges(j)]_vars

\* the first render() call is about to reset the command buffer the
\* constructor used, while a second slot exists and is untouched
C15_Witness ==
    /\ pc = "resetCommandBuffer"
    /\ CurrentFrame = 0
    /\ swapchainImageCount = 2
    /\ mCommandBuffers[oneShotCommandBuffer].state = "invalid"
    /\ mCommandBuffers[oneShotCommandBuffer].commands[1].cmd = "vkCmdCopyBuffer"
    /\ mCommandBuffers[1] = [state |-> "initial", commands |-> <<>>]

----------------------------------------------------------------------------
(* The constructor up to the surface-support check (VkRenderer.cpp 98-242): *)
(* instance extensions, physical device, queue family, device extensions,  *)
(* device, surface.                                                        *)

\* the statements of that part of the constructor
SelectOrder ==
    <<"instanceExtensions", "enumeratePhysicalDevices", "queueFamilies",
      "deviceExtensions", "createDevice", "surfaceSupport">>

\* the statement that follows `step`; after the last the swapchain is next
NextSelectStep(step) ==
    LET k == CHOOSE n \in DOMAIN SelectOrder : SelectOrder[n] = step IN
        IF k = Len(SelectOrder) THEN "surfaceReady" ELSE SelectOrder[k + 1]

\* extension names an implementation may report
InstanceExtensionNames ==
    {"VK_KHR_surface", "VK_KHR_android_surface", "VK_EXT_debug_utils"}

DeviceExtensionNames == {"VK_KHR_swapchain", "VK_KHR_maintenance1"}

\* VkQueueFlags values: COMPUTE, and GRAPHICS | COMPUTE
QueueFlagValues == {2, 3}

VK_QUEUE_GRAPHICS_BIT == 1

\* every sequence of at most n elements of S
SeqUpTo(S, n) == UNION {[1 .. m -> S] : m \in 0 .. n}

\* 114-119: the names kept for vkCreateInstance
instanceExtensionNames ==
    instanceExtensions \cap {"VK_KHR_surface", "VK_KHR_android_surface"}

\* 207-212: the names kept for vkCreateDevice
deviceExtensionNames == deviceExtensions \cap {"VK_KHR_swapchain"}

\* the family has exactly the graphics flag
IsGraphics_Exact(queueFlags) == queueFlags = VK_QUEUE_GRAPHICS_BIT

\* 178: queueFlags & VK_QUEUE_GRAPHICS_BIT
IsGraphics(queueFlags) == BitAnd(queueFlags, VK_QUEUE_GRAPHICS_BIT) # 0

\* 174-181: the loop from index i on; queueFamilyProperties[i] of the code
\* is families[i + 1] here.  Without a match the index ends as the count.
RECURSIVE ScanQueueFamilies(_, _)
ScanQueueFamilies(families, i) ==
    IF i = Len(families) THEN i
    ELSE IF IsGraphics(families[i + 1]) THEN i
         ELSE ScanQueueFamilies(families, i + 1)

\* 170-173: the families of the selected device
queueFamilyProperties ==
    IF mPhysicalDevice = NoDevice THEN <<>>
    ELSE physicalDevices[mPhysicalDevice + 1]

\* 188-193, 237-240, 368-372: the three uses of the family index
deviceQueueCreateInfo == [queueFamilyIndex |-> mQueueFamilyIndex]

surfaceSupportQuery == [physicalDevice |-> mPhysicalDevice,
                        queueFamilyIndex |-> mQueueFamilyIndex]

commandPoolCreateInfo == [queueFamilyIndex |-> mQueueFamilyIndex]

\* a checked call followed by an assert: a failure of either ends the process
SelectResult(vkResult, asserted, step) ==
    /\ lastResult' = vkResult
    /\ pc' = IF asserted THEN VK_CHECK_ERROR(vkResult, pc) ELSE "abort"
    /\ setupPc' = IF vkResult = VK_SUCCESS /\ asserted
                  THEN NextSelectStep(step) ELSE setupPc

otherSetupVars == <<vertices, bufferData, memoryBound, hostWritten,
                    uniformWrites>>

\* 98-131: the instance extensions are filtered, both surface extensions
\* must be there, the instance is created
FilterInstanceExtensions ==
    /\ pc = "idle"
    /\ setupPc = "instanceExtensions"
    /\ \E vkResult \in CallResults :
          SelectResult(vkResult, Cardinality(instanceExtensionNames) = 2,
                       "instanceExtensions")
    /\ UNCHANGED <<loopVars, mCommandBuffers, mUniformData, submissions,
                   otherSetupVars, selectVars, memVars, swapchainVars, ruleVars,
                   bufferVars, allocVars, sampleVars, descriptorVars>>

\* 133-145: mPhysicalDevice = physicalDevices[0].  With an empty vector the
\* read is out of bounds: the process may crash, or go on with a handle
\* that is no enumerated device.
EnumeratePhysicalDevices ==
    /\ pc = "idle"
    /\ setupPc = "enumeratePhysicalDevices"
    /\ \/ \E vkResult \in CallResults :
             /\ SelectResult(vkResult, TRUE, "enumeratePhysicalDevices")
             /\ mPhysicalDevice' =
                   IF vkResult # VK_SUCCESS THEN mPhysicalDevice
                   ELSE IF physicalDevices = <<>> THEN NoDevice ELSE 0
       \/ /\ physicalDevices = <<>>
          /\ SelectResult(VK_SUCCESS, FALSE, "enumeratePhysicalDevices")
          /\ UNCHANGED mPhysicalDevice
    /\ UNCHANGED <<loopVars, mCommandBuffers, mUniformData, submissions,
                   otherSetupVars, instanceExtensions, physicalDevices,
                   deviceExtensions, mQueueFamilyIndex, memVars,
                   swapchainVars, ruleVars,
                   bufferVars, allocVars, sampleVars, descriptorVars>>

\* 169-186: the first family with the graphics bit; nothing follows the
\* loop.  On a handle that is no device the query is undefined: a crash or
\* any index.
FindQueueFamily ==
    /\ pc = "idle"
    /\ setupPc = "queueFamilies"
    /\ IF mPhysicalDevice = NoDevice
       THEN \/ /\ SelectResult(VK_SUCCESS, FALSE, "queueFamilies")
               /\ UNCHANGED mQueueFamilyIndex
            \/ /\ SelectResult(VK_SUCCESS, TRUE, "queueFamilies")
               /\ mQueueFamilyIndex' \in 0 .. MaxFamilies
       ELSE /\ SelectResult(VK_SUCCESS, TRUE, "queueFamilies")
            /\ mQueueFamilyIndex' = ScanQueueFamilies(queueFamilyProperties, 0)
    /\ UNCHANGED <<loopVars, mCommandBuffers, mUniformData, submissions,
                   otherSetupVars, instanceExtensions, physicalDevices,
                   deviceExtensions, mPhysicalDevice, memVars, swapchainVars,
                   ruleVars,
                   bufferVars, allocVars, sampleVars, descriptorVars>>

\* 195-214: the device extensions are filtered, VK_KHR_swapchain must be
\* there
FilterDeviceExtensions ==
    /\ pc = "idle"
    /\ setupPc = "deviceExtensions"
    /\ \E vkResult \in CallResults :
          SelectResult(vkResult, Cardinality(deviceExtensionNames) = 1,
                       "deviceExtensions")
    /\ UNCHANGED <<loopVars, mCommandBuffers, mUniformData, submissions,
                   otherSetupVars, selectVars, memVars, swapchainVars, ruleVars,
                   bufferVars, allocVars, sampleVars, descriptorVars>>

\* 216-225: vkCreateDevice with deviceQueueCreateInfo, vkGetDeviceQueue
CreateDevice ==
    /\ pc = "idle"
    /\ setupPc = "createDevice"
    /\ \E vkResult \in CallResults :
          SelectResult(vkResult, TRUE, "createDevice")
    /\ UNCHANGED <<loopVars, mCommandBuffers, mUniformData, submissions,
                   otherSetupVars, selectVars, memVars, swapchainVars, ruleVars,
                   bufferVars, allocVars, sampleVars, descriptorVars>>

\* 227-242: the surface is created; the family must support presenting
\* to it
CheckSurfaceSupport ==
    /\ pc = "idle"
    /\ setupPc = "surfaceSupport"
    /\ \E vkResult \in CallResults, supported \in BOOLEAN :
          SelectResult(vkResult, supported, "surfaceSupport")
    /\ UNCHANGED <<loopVars, mCommandBuffers, mUniformData, submissions,
                   otherSetupVars, selectVars, memVars, swapchainVars, ruleVars,
                   bufferVars, allocVars, sampleVars, descriptorVars>>

\* every report of extensions, devices and families within the bounds
SelectInit ==
    /\ swapchainImageCount = 1
    /\ FrameInit
    /\ vertices = VertexArray
    /\ setupPc = SelectOrder[1]
    /\ UploadIdle
    /\ MemIdle
    /\ SwapchainIdle
    /\ RuleIdle
    /\ BufferIdle
    /\ AllocIdle
    /\ SampleIdle
    /\ instanceExtensions \in SUBSET InstanceExtensionNames
    /\ physicalDevices \in SeqUpTo(SeqUpTo(QueueFlagValues, MaxFamilies), MaxDevices)
    /\ deviceExtensions \in SUBSET DeviceExtensionNames
    /\ mPhysicalDevice = NoDevice
    /\ mQueueFamilyIndex = 0

SelectNext ==
    \/ FilterInstanceExtensions
    \/ EnumeratePhysicalDevices
    \/ FindQueueFamily
    \/ FilterDeviceExtensions
    \/ CreateDevice
    \/ CheckSurfaceSupport

SpecSelect == SelectInit /\ [][SelectNext]_vars

\* the indices of the families whose flags include the graphics bit
GraphicsFamilies(families) ==
    {i \in 0 .. (Len(families) - 1) :
        (families[i + 1] \div VK_QUEUE_GRAPHICS_BIT) % 2 = 1}

\* the indices of the enumerated devices that have such a family
GraphicsDevices ==
    {d \in 0 .. (Len(physicalDevices) - 1) :
        GraphicsFamilies(physicalDevices[d + 1]) # {}}

Lowest(S) == CHOOSE x \in S : \A y \in S : x <= y

\* the constructor is past the loop that sets mQueueFamilyIndex
FamilyChosen ==
    setupPc \in {"deviceExtensions", "createDevice", "surfaceSupport",
                 "surfaceReady"}

RequiredInstanceExtensions == {"VK_KHR_surface", "VK_KHR_android_surface"}

RequiredDeviceExtensions == {"VK_KHR_swapchain"}

\* the constructor went on past the given statement
PastStep(step) ==
    \/ setupPc = "surfaceReady"
    \/ \E m, n \in DOMAIN SelectOrder :
          /\ SelectOrder[m] = step
          /\ SelectOrder[n] = setupPc
          /\ m < n

\* C18: the constructor goes past the extension filters only when the
\* required extensions are reported, past the device enumeration only when
\* a device was enumerated, and past the family search only when the
\* selected device has a family with the graphics bit; otherwise the
\* process has terminated at that statement.
C18_SetupFailsFast ==
    /\ PastStep("instanceExtensions") =>
          RequiredInstanceExtensions \subseteq instanceExtensions
    /\ PastStep("enumeratePhysicalDevices") => physicalDevices # <<>>
    /\ PastStep("queueFamilies") =>
          /\ physicalDevices # <<>>
          /\ GraphicsFamilies(physicalDevices[1]) # {}
    /\ PastStep("deviceExtensions") =>
          RequiredDeviceExtensions \subseteq deviceExtensions

----------------------------------------------------------------------------
(* The constructor's swapchain negotiation (VkRenderer.cpp 266-323)         *)

SwapchainOrder == <<"surfaceFormats", "presentModes", "createSwapchain">>

NextSwapchainStep(step) ==
    LET k == CHOOSE n \in DOMAIN SwapchainOrder : SwapchainOrder[n] = step IN
        IF k = Len(SwapchainOrder) THEN "swapchainReady"
        ELSE SwapchainOrder[k + 1]

VK_FORMAT_R8G8B8A8_UNORM == "VK_FORMAT_R8G8B8A8_UNORM"

VK_PRESENT_MODE_FIFO_KHR == "VK_PRESENT_MODE_FIFO_KHR"

\* VkSurfaceFormatKHR values a surface may report
SurfaceFormatValues ==
    [format : {VK_FORMAT_R8G8B8A8_UNORM, "VK_FORMAT_R8G8B8A8_SRGB",
               "VK_FORMAT_B8G8R8A8_UNORM"},
     colorSpace : {"VK_COLOR_SPACE_SRGB_NONLINEAR_KHR",
                   "VK_COLOR_SPACE_DISPLAY_P3_NONLINEAR_EXT"}]

\* VkPresentModeKHR values a surface may report
PresentModeValues ==
    {VK_PRESENT_MODE_FIFO_KHR, "VK_PRESENT_MODE_MAILBOX_KHR",
     "VK_PRESENT_MODE_IMMEDIATE_KHR"}

\* any 8-bit RGBA format is taken
IsWantedFormat_AnyRGBA(surfaceFormat) ==
    surfaceFormat.format \in {VK_FORMAT_R8G8B8A8_UNORM, "VK_FORMAT_R8G8B8A8_SRGB"}

\* 277: surfaceFormats[i].format == VK_FORMAT_R8G8B8A8_UNORM
IsWantedFormat(surfaceFormat) == surfaceFormat.format = VK_FORMAT_R8G8B8A8_UNORM

\* 297: presentModes[i] == VK_PRESENT_MODE_FIFO_KHR
IsWantedMode(presentMode) == presentMode = VK_PRESENT_MODE_FIFO_KHR

\* 275-282: the loop from index i on, `found` being the index so far
RECURSIVE ScanSurfaceFormats(_, _, _)
ScanSurfaceFormats(formats, i, found) ==
    IF i = Len(formats) THEN found
    ELSE IF IsWantedFormat(formats[i + 1]) THEN i
         ELSE ScanSurfaceFormats(formats, i + 1, found)

\* 295-302: the loop from index i on
RECURSIVE ScanPresentModes(_, _, _)
ScanPresentModes(modes, i, found) ==
    IF i = Len(modes) THEN found
    ELSE IF IsWantedMode(modes[i + 1]) THEN i
         ELSE ScanPresentModes(modes, i + 1, found)

swapchainOtherVars == <<loopVars, mCommandBuffers, mUniformData, submissions,
                        otherSetupVars, selectVars, memVars, ruleVars,
                   bufferVars, allocVars, sampleVars, descriptorVars>>

\* 266-285: the formats are queried, the first R8G8B8A8_UNORM entry is
\* looked for and asserted to exist
SelectSurfaceFormat ==
    /\ pc = "idle"
    /\ setupPc = "surfaceFormats"
    /\ \E vkResult \in CallResults :
          LET index == ScanSurfaceFormats(surfaceFormats, 0, VK_FORMAT_MAX_ENUM) IN
             /\ surfaceFormatIndex' =
                   IF vkResult = VK_SUCCESS THEN index ELSE surfaceFormatIndex
             /\ lastResult' = vkResult
             /\ pc' = IF vkResult = VK_SUCCESS /\ index = VK_FORMAT_MAX_ENUM
                      THEN "abort" ELSE VK_CHECK_ERROR(vkResult, pc)
             /\ setupPc' = IF vkResult = VK_SUCCESS /\ index # VK_FORMAT_MAX_ENUM
                           THEN NextSwapchainStep("surfaceFormats") ELSE setupPc
    /\ UNCHANGED <<swapchainOtherVars, surfaceFormats, presentModes,
                   presentModeIndex, swapchainCreateInfo>>

\* 287-306: the present modes are queried, the first FIFO entry is looked
\* for and asserted to exist
SelectPresentMode ==
    /\ pc = "idle"
    /\ setupPc = "presentModes"
    /\ \E vkResult \in CallResults :
          LET index == ScanPresentModes(presentModes, 0,
                                        VK_PRESENT_MODE_MAX_ENUM_KHR) IN
             /\ presentModeIndex' =
                   IF vkResult = VK_SUCCESS THEN index ELSE presentModeIndex
             /\ lastResult' = vkResult
             /\ pc' = IF vkResult = VK_SUCCESS
                         /\ index = VK_PRESENT_MODE_MAX_ENUM_KHR
                      THEN "abort" ELSE VK_CHECK_ERROR(vkResult, pc)
             /\ setupPc' = IF vkResult = VK_SUCCESS
                              /\ index # VK_PRESENT_MODE_MAX_ENUM_KHR
                           THEN NextSwapchainStep("presentModes") ELSE setupPc
    /\ UNCHANGED <<swapchainOtherVars, surfaceFormats, presentModes,
                   surfaceFormatIndex, swapchainCreateInfo>>

\* 308-323: VkSwapchainCreateInfoKHR is filled from the two indices and
\* vkCreateSwapchainKHR is called
CreateSwapchain ==
    /\ pc = "idle"
    /\ setupPc = "createSwapchain"
    /\ swapchainCreateInfo' =
          [imageFormat |-> surfaceFormats[surfaceFormatIndex + 1].format,
           imageColorSpace |-> surfaceFormats[surfaceFormatIndex + 1].colorSpace,
           presentMode |-> presentModes[presentModeIndex + 1]]
    /\ \E vkResult \in CallResults :
          /\ lastResult' = vkResult
          /\ pc' = VK_CHECK_ERROR(vkResult, pc)
          /\ setupPc' = IF vkResult = VK_SUCCESS
                        THEN NextSwapchainStep("createSwapchain") ELSE setupPc
    /\ UNCHANGED <<swapchainOtherVars, surfaceFormats, presentModes,
                   surfaceFormatIndex, presentModeIndex>>

\* every report of formats and present modes within the bounds
SwapchainInit ==
    /\ swapchainImageCount = 1
    /\ FrameInit
    /\ vertices = VertexArray
    /\ setupPc = SwapchainOrder[1]
    /\ UploadIdle
    /\ MemIdle
    /\ SelectIdle
    /\ RuleIdle
    /\ BufferIdle
    /\ AllocIdle
    /\ SampleIdle
    /\ surfaceFormats \in SeqUpTo(SurfaceFormatValues, MaxFormats)
    /\ presentModes \in SeqUpTo(PresentModeValues, MaxModes)
    /\ surfaceFormatIndex = VK_FORMAT_MAX_ENUM
    /\ presentModeIndex = VK_PRESENT_MODE_MAX_ENUM_KHR
    /\ swapchainCreateInfo = NoSwapchainCreateInfo

SwapchainNext ==
    \/ SelectSurfaceFormat
    \/ SelectPresentMode
    \/ CreateSwapchain

SpecSwapchain == SwapchainInit /\ [][SwapchainNext]_vars

\* the indices of the reported formats that are R8G8B8A8_UNORM
UnormIndices ==
    {i \in 0 .. (Len(surfaceFormats) - 1) :
        surfaceFormats[i + 1].format = "VK_FORMAT_R8G8B8A8_UNORM"}

\* the indices of the reported present modes that are FIFO
FifoIndices ==
    {i \in 0 .. (Len(presentModes) - 1) :
        presentModes[i + 1] = "VK_PRESENT_MODE_FIFO_KHR"}

\* the process ended on an assertion, not on a failed call
AssertionFailedAt(step) ==
    pc = "abort" /\ lastResult = VK_SUCCESS /\ setupPc = step

\* C19: the constructor goes past the format search only with the index of
\* the lowest-indexed R8G8B8A8_UNORM entry and past the present-mode search
\* only with the index of the lowest-indexed FIFO entry; when the list has
\* no such entry the process ends at that search; the swapchain is created
\* with exactly that entry's format and colour space and with FIFO.
C19_FirstUnormFirstFifo ==
    /\ setupPc \in {"presentModes", "createSwapchain", "swapchainReady"} =>
          /\ UnormIndices # {}
          /\ surfaceFormatIndex = Lowest(UnormIndices)
    /\ setupPc \in {"createSwapchain", "swapchainReady"} =>
          /\ FifoIndices # {}
          /\ presentModeIndex = Lowest(FifoIndices)
    /\ AssertionFailedAt("surfaceFormats") => UnormIndices = {}
    /\ AssertionFailedAt("presentModes") => FifoIndices = {}
    /\ (UnormIndices = {} \/ FifoIndices = {}) =>
          swapchainCreateInfo = NoSwapchainCreateInfo
    /\ swapchainCreateInfo # NoSwapchainCreateInfo =>
          swapchainCreateInfo =
              [imageFormat |-> "VK_FORMAT_R8G8B8A8_UNORM",
               imageColorSpace |->
                   surfaceFormats[Lowest(UnormIndices) + 1].colorSpace,
               presentMode |-> "VK_PRESENT_MODE_FIFO_KHR"]

\* the wanted entries come second in both lists, after an sRGB format and
\* a mailbox mode, and the swapchain was created
C19_Witness ==
    /\ setupPc = "swapchainReady"
    /\ Len(surfaceFormats) = 2
    /\ surfaceFormats[1].format = "VK_FORMAT_R8G8B8A8_SRGB"
    /\ Len(presentModes) = 2
    /\ presentModes[1] = "VK_PRESENT_MODE_MAILBOX_KHR"
    /\ surfaceFormatIndex = 1
    /\ presentModeIndex = 1
    /\ swapchainCreateInfo.imageFormat = "VK_FORMAT_R8G8B8A8_UNORM"

----------------------------------------------------------------------------
(* The update rule of one position entry, from every start value between   *)
(* the reset value and the limit                                           *)

RuleInit ==
    /\ swapchainImageCount = 1
    /\ FrameInit
    /\ vertices = VertexArray
    /\ UploadInit
    /\ MemIdle
    /\ SelectIdle
    /\ SwapchainIdle
    /\ BufferIdle
    /\ AllocIdle
    /\ SampleIdle
    /\ position \in PositionReset .. PositionLimit
    /\ positionTrace = <<position>>

\* 1303-1306 applied to the entry once more
UpdateEntry ==
    /\ Len(positionTrace) <= MaxUpdates
    /\ position' = UpdatePosition(position)
    /\ positionTrace' = Append(positionTrace, position')
    /\ UNCHANGED <<frameVars, uploadVars, memVars, selectVars, swapchainVars,
                   bufferVars, allocVars, sampleVars, descriptorVars>>

RuleNext == UpdateEntry

SpecRule == RuleInit /\ [][RuleNext]_vars

\* number of values from the reset value to the limit
PositionPeriod == (PositionLimit - PositionReset) \div PositionStep + 1

----------------------------------------------------------------------------
(* Properties of the constructor's upload *)

\* the constructor is past the vkQueueWaitIdle of 1113
AfterQueueWaitIdle == setupPc \in {"destroyStagingBuffer", "constructed"}

\* the copy commands recorded in any command buffer
CopyCommands ==
    {c \in UNION {{mCommandBuffers[b].commands[n] :
                      n \in DOMAIN mCommandBuffers[b].commands} : b \in Slots} :
        c.cmd = "vkCmdCopyBuffer"}

\* C11: whatever bytes the constructor wrote through the mapped staging
\* buffer, once the one-shot submission was made and vkQueueWaitIdle has
\* returned the vertex buffer holds the same bytes in the same order; the
\* recorded copy has offsets 0 and the size that was written.
C11_UploadRoundTrip ==
    /\ AfterQueueWaitIdle => bufferData["mVertexBuffer"] = vertices
    /\ (stagingBuffer \in hostWritten /\ stagingBuffer \in memoryBound) =>
          bufferData["stagingBuffer"] = vertices
    /\ \A c \in CopyCommands :
          /\ c.arg.src = "stagingBuffer"
          /\ c.arg.dst = "mVertexBuffer"
          /\ c.arg.region = [srcOffset |-> 0, dstOffset |-> 0,
                             size |-> Len(vertices)]

\* the constructor finished for an array of differing bytes
C11_Witness ==
    /\ setupPc = "constructed"
    /\ Len(vertices) >= 2
    /\ vertices[1] # vertices[2]
    /\ bufferData["mVertexBuffer"] = vertices
    /\ bufferData["stagingBuffer"] = <<>>

\* C16: the constructor's submission names no fence; once vkQueueWaitIdle
\* has returned the GPU has finished it and the queue no longer holds it,
\* so it is complete when the constructor returns; render() runs only after
\* the constructor returned, and the queue never holds the constructor's
\* submission together with a submission of a render() call.
C16_SetupCompleteBeforeFrames ==
    /\ \A k \in DOMAIN submissions :
          submissions[k].frame < 0 => submissions[k].fences = {}
    /\ AfterQueueWaitIdle =>
          /\ ~DeviceWorkOfSetup
          /\ \E m \in completed : m < 0
          /\ slotHistory = <<>> =>
                mCommandBuffers[oneShotCommandBuffer].state = "invalid"
    /\ (slotHistory # <<>> \/ pc \in RenderSteps) =>
          /\ setupPc = "constructed"
          /\ ~DeviceWorkOfSetup
    /\ \A k, l \in DOMAIN submissions :
          ~(submissions[k].frame < 0 /\ submissions[l].frame >= 0)

\* the queue holds a render() call's submission after it executed the
\* constructor's
C16_Witness ==
    /\ setupPc = "constructed"
    /\ \E m \in completed : m < 0
    /\ \E k \in DOMAIN submissions :
          submissions[k].frame >= 0 /\ ~submissions[k].executed
    /\ bufferData["mVertexBuffer"] = vertices

----------------------------------------------------------------------------
(* Properties of vkGetMemoryTypeIndex *)

\* bit i of the requirement's memoryTypeBits is set
TypeBitSet(i) == (memoryTypeBits \div (2 ^ i)) % 2 = 1

\* the flag bits set in a VkMemoryPropertyFlags value
FlagsOf(flags) == {b \in 0 .. 2 : (flags \div (2 ^ b)) % 2 = 1}

\* the indices of the table that satisfy requirement and request
Candidates ==
    {i \in 0 .. (Len(memoryTypes) - 1) :
        /\ TypeBitSet(i)
        /\ FlagsOf(memoryPropertyFlags) \subseteq FlagsOf(memoryTypes[i + 1])}

\* C9: vkGetMemoryTypeIndex succeeds exactly when some index below
\* memoryTypeCount has its bit set in memoryTypeBits and holds every wanted
\* flag, and then stores the lowest such index; otherwise it returns
\* VK_ERROR_UNKNOWN and stores UINT32_MAX.
C9_LowestMatchingType ==
    memoryResult # "none" =>
        /\ (memoryResult = VK_SUCCESS) = (Candidates # {})
        /\ memoryResult # VK_SUCCESS =>
              /\ memoryResult = "VK_ERROR_UNKNOWN"
              /\ memoryTypeIndex = UINT32_MAX
        /\ memoryResult = VK_SUCCESS =>
              /\ memoryTypeIndex \in Candidates
              /\ \A i \in Candidates : memoryTypeIndex <= i

\* index 0 has its bit set but lacks a wanted flag, and index 1 is returned
C9_Witness ==
    /\ memoryResult = VK_SUCCESS
    /\ memoryTypeIndex = 1
    /\ TypeBitSet(0)
    /\ memoryPropertyFlags # 0

----------------------------------------------------------------------------
(* Error handling of render() *)

\* C10: whenever a call of the render sequence has returned a result other
\* than VK_SUCCESS, the process has terminated instead of going on to the
\* next step.
C10_EveryFailureAborts ==
    lastResult # VK_SUCCESS => pc = "abort"

----------------------------------------------------------------------------
(* The vulkan-buffer program (vulkan-buffer VkRenderer.cpp): its last      *)
(* constructor step creates mVertexBuffer and binds no memory to it, and   *)
(* its render() records one command buffer per call.  The clear colour is  *)
(* kept as the number of times 721-723 was applied to it.                  *)

BufferOrder == <<"acquire", "waitFence", "resetCommandBuffer",
                 "beginCommandBuffer", "recordCommands", "updateClearValue",
                 "endCommandBuffer", "queueSubmit", "queuePresent",
                 "queueWaitIdle">>

\* the statement that follows `step`; render() returns after the last one
NextBufferStep(step) ==
    LET k == CHOOSE n \in DOMAIN BufferOrder : BufferOrder[n] = step IN
        IF k = Len(BufferOrder) THEN "idle" ELSE BufferOrder[k + 1]

\* the vertex buffer is bound before the draw, as if it had memory
BufferRecordedCommands_BindVertexBuffer ==
    << [cmd |-> "vkCmdBeginRenderPass",
        arg |-> FramebufferFor(swapchainImageIndex)],
       [cmd |-> "vkCmdBindPipeline", arg |-> "mPipeline"],
       [cmd |-> "vkCmdBindVertexBuffers", arg |-> "mVertexBuffer"],
       [cmd |-> "vkCmdDraw", arg |-> "3,1,0,0"],
       [cmd |-> "vkCmdEndRenderPass", arg |-> "none"] >>

\* vulkan-buffer 690-716: the commands recorded between begin and end
BufferRecordedCommands ==
    << [cmd |-> "vkCmdBeginRenderPass",
        arg |-> FramebufferFor(swapchainImageIndex)],
       [cmd |-> "vkCmdBindPipeline", arg |-> "mPipeline"],
       [cmd |-> "vkCmdDraw", arg |-> "3,1,0,0"],
       [cmd |-> "vkCmdEndRenderPass", arg |-> "none"] >>

bufferOtherVars == <<swapchainImageCount, mFrameIndex, pc, framebuffer,
                     presentInfo, lastResult, mFencesForSubmit,
                     mFencesForAcquire, mSemaphores, mCommandBuffers,
                     mUniformData, submissions, presents, acquiring,
                     imageOwner, peReading, completed, displayed, steps,
                     calls, slotHistory, imageOrderDiffers, uploadVars,
                     memVars, selectVars, swapchainVars, ruleVars,
                     allocVars, sampleVars, descriptorVars>>

\* a checked call that changes nothing the model keeps
BufferCall(step, results) ==
    /\ bufferPc = step
    /\ \E vkResult \in results :
          bufferPc' = VK_CHECK_ERROR(vkResult, NextBufferStep(step))

\* vulkan-buffer 619-625: vkCreateBuffer; no memory is allocated or bound
BufferCreateVertexBuffer ==
    /\ bufferPc = "createVertexBuffer"
    /\ \E vkResult \in CallResults :
          bufferPc' = VK_CHECK_ERROR(vkResult, "idle")
    /\ UNCHANGED <<bufferOtherVars, swapchainImageIndex, mCommandBuffer,
                   mClearValue>>

\* the event loop calls render()
BufferRenderEnter ==
    /\ bufferPc = "idle"
    /\ mClearValue < MaxFrames
    /\ bufferPc' = BufferOrder[1]
    /\ UNCHANGED <<bufferOtherVars, swapchainImageIndex, mCommandBuffer,
                   mClearValue>>

\* vulkan-buffer 657-664: vkAcquireNextImageKHR returns any image index
BufferAcquireNextImage ==
    /\ bufferPc = "acquire"
    /\ \/ \E j \in Images :
             /\ swapchainImageIndex' = j
             /\ bufferPc' = NextBufferStep("acquire")
       \/ \E vkResult \in SwapchainResults \ {VK_SUCCESS} :
             /\ bufferPc' = VK_CHECK_ERROR(vkResult, NextBufferStep("acquire"))
             /\ UNCHANGED swapchainImageIndex
    /\ UNCHANGED <<bufferOtherVars, mCommandBuffer, mClearValue>>

\* vulkan-buffer 669-670: vkWaitForFences, vkResetFences
BufferWaitFence ==
    /\ BufferCall("waitFence", CallResults)
    /\ UNCHANGED <<bufferOtherVars, swapchainImageIndex, mCommandBuffer,
                   mClearValue>>

\* vulkan-buffer 675: vkResetCommandBuffer, its result is not looked at
BufferResetCommandBuffer ==
    /\ bufferPc = "resetCommandBuffer"
    /\ \E vkResult \in CallResults :
          mCommandBuffer' =
             IF vkResult = VK_SUCCESS
             THEN [state |-> "initial", commands |-> <<>>]
             ELSE mCommandBuffer
    /\ bufferPc' = NextBufferStep("resetCommandBuffer")
    /\ UNCHANGED <<bufferOtherVars, swapchainImageIndex, mClearValue>>

\* vulkan-buffer 680-685: vkBeginCommandBuffer
BufferBeginCommandBuffer ==
    /\ BufferCall("beginCommandBuffer", CallResults)
    /\ mCommandBuffer' =
          IF bufferPc' # "abort"
          THEN [state |-> "recording", commands |-> <<>>]
          ELSE mCommandBuffer
    /\ UNCHANGED <<bufferOtherVars, swapchainImageIndex, mClearValue>>

\* vulkan-buffer 690-716: the render pass, the pipeline and the draw
BufferRecordCommands ==
    /\ bufferPc = "recordCommands"
    /\ mCommandBuffer' =
          [mCommandBuffer EXCEPT !.commands = @ \o BufferRecordedCommands]
    /\ bufferPc' = NextBufferStep("recordCommands")
    /\ UNCHANGED <<bufferOtherVars, swapchainImageIndex, mClearValue>>

\* vulkan-buffer 721-723: the clear colour moves on
BufferUpdateClearValue ==
    /\ bufferPc = "updateClearValue"
    /\ mClearValue' = mClearValue + 1
    /\ bufferPc' = NextBufferStep("updateClearValue")
    /\ UNCHANGED <<bufferOtherVars, swapchainImageIndex, mCommandBuffer>>

\* vulkan-buffer 728: vkEndCommandBuffer
BufferEndCommandBuffer ==
    /\ BufferCall("endCommandBuffer", CallResults)
    /\ mCommandBuffer' =
          IF bufferPc' # "abort"
          THEN [mCommandBuffer EXCEPT !.state = "executable"]
          ELSE mCommandBuffer
    /\ UNCHANGED <<bufferOtherVars, swapchainImageIndex, mClearValue>>

\* vulkan-buffer 733-741: vkQueueSubmit of mCommandBuffer
BufferQueueSubmit ==
    /\ BufferCall("queueSubmit", CallResults)
    /\ mCommandBuffer' =
          IF bufferPc' # "abort"
          THEN [mCommandBuffer EXCEPT !.state = "pending"]
          ELSE mCommandBuffer
    /\ UNCHANGED <<bufferOtherVars, swapchainImageIndex, mClearValue>>

\* vulkan-buffer 746-755: vkQueuePresentKHR
BufferQueuePresent ==
    /\ BufferCall("queuePresent", SwapchainResults)
    /\ UNCHANGED <<bufferOtherVars, swapchainImageIndex, mCommandBuffer,
                   mClearValue>>

\* vulkan-buffer 756: vkQueueWaitIdle; the one-time-submit command buffer
\* has been executed when it returns
BufferQueueWaitIdle ==
    /\ BufferCall("queueWaitIdle", CallResults)
    /\ mCommandBuffer' =
          IF bufferPc' # "abort"
          THEN [mCommandBuffer EXCEPT !.state = "invalid"]
          ELSE mCommandBuffer
    /\ UNCHANGED <<bufferOtherVars, swapchainImageIndex, mClearValue>>

BufferNext ==
    \/ BufferCreateVertexBuffer
    \/ BufferRenderEnter
    \/ BufferAcquireNextImage
    \/ BufferWaitFence
    \/ BufferResetCommandBuffer
    \/ BufferBeginCommandBuffer
    \/ BufferRecordCommands
    \/ BufferUpdateClearValue
    \/ BufferEndCommandBuffer
    \/ BufferQueueSubmit
    \/ BufferQueuePresent
    \/ BufferQueueWaitIdle

\* the vulkan-buffer constructor has reached its vertex buffer (619); the
\* other program is not running
BufferInit ==
    /\ swapchainImageCount \in 1 .. MaxImages
    /\ FrameInit
    /\ vertices = VertexArray
    /\ setupPc = "none"
    /\ UploadIdle
    /\ MemIdle
    /\ SelectIdle
    /\ SwapchainIdle
    /\ RuleIdle
    /\ AllocIdle
    /\ SampleIdle
    /\ bufferPc = "createVertexBuffer"
    /\ mCommandBuffer = [state |-> "initial", commands |-> <<>>]
    /\ mClearValue = 0

\* either program, from its construction on
ResourceInit == Init \/ BufferInit

ResourceNext == Next \/ BufferNext

SpecResource == ResourceInit /\ [][ResourceNext]_vars

\* the resources the CPU writes through a mapping
MappedResources ==
    {stagingBuffer, mImage} \cup {mUniformBuffers[i] : i \in Slots}

\* the render() calls up to `frame` that used the slot of `frame`
CallsOfSlot(frame) == {g \in 0 .. frame : SlotOf(g) = SlotOf(frame)}

\* the command buffers that hold recorded commands
RecordedSlots ==
    {c \in Slots :
        mCommandBuffers[c].state \in {"recording", "executable", "pending"}}

\* C20: every buffer and image that a submission in the queue references
\* has memory bound; those the CPU writes through a mapping had their setup
\* write done, and the uniform block of a frame's slot had that frame's
\* update done, before the submission was queued; every resource bound in
\* a recorded command has memory bound, and the vulkan-buffer program,
\* whose vertex buffer never gets memory, records no command that binds it.
C20_BoundAndWrittenBeforeUse ==
    /\ \A k \in DOMAIN submissions :
          /\ submissions[k].resources \subseteq memoryBound
          /\ (submissions[k].resources \cap MappedResources) \subseteq hostWritten
          /\ submissions[k].frame >= 0 =>
                uniformWrites[SlotOf(submissions[k].frame)] >=
                    Cardinality(CallsOfSlot(submissions[k].frame))
    /\ \A c \in RecordedSlots :
          ResourcesOfAll(mCommandBuffers[c].commands) \subseteq memoryBound
    /\ bufferPc # "none" =>
          /\ mVertexBuffer \notin memoryBound
          /\ ResourcesOfAll(mCommandBuffer.commands) \subseteq memoryBound

\* the queue holds the submission of the second or a later render() call,
\* which reads the vertex buffer, the texture and the slot's uniform buffer
C20_Witness ==
    \E k \in DOMAIN submissions :
        /\ submissions[k].frame >= 1
        /\ {mVertexBuffer, mImage,
            mUniformBuffers[SlotOf(submissions[k].frame)]}
              \subseteq submissions[k].resources
        /\ uniformWrites[SlotOf(submissions[k].frame)] >= 1

----------------------------------------------------------------------------
(* The memory of the constructor's resources, for every memory-type table  *)
(* and every memory requirement within the bounds, in the two programs     *)
(* that give their resources memory: hello-graceful-shutdown (staging      *)
(* upload, one uniform buffer per slot) and vulkan-sampler (the vertex     *)
(* buffer is written by the CPU, one uniform buffer, kept as slot 0).      *)

SamplerOrder == <<"samplerVertexBuffer", "samplerUniformBuffer", "samplerTexture">>

NextSamplerStep(step) ==
    LET k == CHOOSE n \in DOMAIN SamplerOrder : SamplerOrder[n] = step IN
        IF k = Len(SamplerOrder) THEN "samplerConstructed"
        ELSE SamplerOrder[k + 1]

\* a checked block of the vulkan-sampler constructor
SamplerResult(vkResult, step) ==
    /\ lastResult' = vkResult
    /\ pc' = VK_CHECK_ERROR(vkResult, pc)
    /\ setupPc' = IF vkResult = VK_SUCCESS THEN NextSamplerStep(step) ELSE setupPc

\* vulkan-sampler 691-737: the vertex buffer gets host-visible memory and
\* is filled through a mapping of its first vertexDataSize bytes
SamplerVertexBufferCalls ==
    MemoryCalls(mVertexBuffer, mVertexMemory, HostVisibleCoherent)
    \o << Call("vkMapMemory", NoResource, mVertexMemory,
               [offset |-> 0, size |-> vertexDataSize]),
          Call("memcpy", mVertexBuffer, mVertexMemory, [size |-> vertexDataSize]),
          Call("vkUnmapMemory", NoResource, mVertexMemory, NoInfo) >>

\* vulkan-sampler 742-786: the uniform buffer, mapped whole and cleared
SamplerUniformBufferCalls ==
    MemoryCalls(mUniformBuffers[0], mUniformMemories[0], HostVisibleCoherent)
    \o << Call("vkMapMemory", NoResource, mUniformMemories[0],
               [offset |-> 0, size |-> "VK_WHOLE_SIZE"]),
          Call("memset", mUniformBuffers[0], mUniformMemories[0],
               [size |-> sizeofUniform]) >>

SamplerCreateVertexBuffer ==
    /\ pc = "idle"
    /\ setupPc = "samplerVertexBuffer"
    /\ \E outcome \in Outcomes(SamplerVertexBufferCalls) :
          /\ apiCalls' = apiCalls \o outcome.made
          /\ SamplerResult(outcome.result, "samplerVertexBuffer")
          /\ IF outcome.result = VK_SUCCESS
             THEN /\ bufferData' = [bufferData EXCEPT
                                       !["mVertexBuffer"] =
                                           Memcpy(FreshMemory(vertexDataSize),
                                                  vertices, vertexDataSize)]
                  /\ memoryBound' = memoryBound \cup {mVertexBuffer}
                  /\ hostWritten' = hostWritten \cup {mVertexBuffer}
             ELSE UNCHANGED <<bufferData, memoryBound, hostWritten>>
    /\ UNCHANGED <<loopVars, mCommandBuffers, mUniformData, submissions,
                   vertices, uniformWrites, staticVars>>

SamplerCreateUniformBuffer ==
    /\ pc = "idle"
    /\ setupPc = "samplerUniformBuffer"
    /\ \E outcome \in Outcomes(SamplerUniformBufferCalls) :
          /\ apiCalls' = apiCalls \o outcome.made
          /\ SamplerResult(outcome.result, "samplerUniformBuffer")
          /\ IF outcome.result = VK_SUCCESS
             THEN /\ memoryBound' = memoryBound \cup {mUniformBuffers[0]}
                  /\ hostWritten' = hostWritten \cup {mUniformBuffers[0]}
                  /\ mUniformData' = [mUniformData EXCEPT ![0] = ZeroUniform]
             ELSE UNCHANGED <<memoryBound, hostWritten, mUniformData>>
    /\ UNCHANGED <<loopVars, mCommandBuffers, submissions, vertices,
                   bufferData, uniformWrites, staticVars>>

\* vulkan-sampler 791-890: the same statements as 941-1039 of
\* hello-graceful-shutdown; no view of the image is created
SamplerCreateTexture ==
    /\ pc = "idle"
    /\ setupPc = "samplerTexture"
    /\ \E outcome \in Outcomes(TextureImageCalls) :
          /\ apiCalls' = apiCalls \o outcome.made
          /\ SamplerResult(outcome.result, "samplerTexture")
          /\ IF outcome.result = VK_SUCCESS
             THEN /\ memoryBound' = memoryBound \cup {mImage}
                  /\ hostWritten' = hostWritten \cup {mImage}
             ELSE UNCHANGED <<memoryBound, hostWritten>>
    /\ UNCHANGED <<loopVars, mCommandBuffers, mUniformData, submissions,
                   vertices, bufferData, uniformWrites, staticVars>>

SamplerConstruct ==
    \/ SamplerCreateVertexBuffer
    \/ SamplerCreateUniformBuffer
    \/ SamplerCreateTexture

\* VkMemoryPropertyFlags of the memory types of the tables tried
AllocFlagValues ==
    {VK_MEMORY_PROPERTY_DEVICE_LOCAL_BIT, VK_MEMORY_PROPERTY_HOST_VISIBLE_BIT,
     VK_MEMORY_PROPERTY_HOST_VISIBLE_BIT + VK_MEMORY_PROPERTY_HOST_COHERENT_BIT,
     VK_MEMORY_PROPERTY_DEVICE_LOCAL_BIT + VK_MEMORY_PROPERTY_HOST_VISIBLE_BIT
        + VK_MEMORY_PROPERTY_HOST_COHERENT_BIT}

\* how much more than declared a resource of the kind needs when the
\* device rounds sizes up
Padding(kind) ==
    CASE kind = "stagingBuffer" -> 1
      [] kind = "mVertexBuffer" -> 2
      [] kind = "mUniformBuffers" -> 3
      [] kind = "mImage" -> 4

\* either constructor starts on its first resource, on any device within
\* the bounds
AllocInit ==
    /\ swapchainImageCount \in 1 .. MaxImages
    /\ FrameInit
    /\ vertices = VertexArray
    /\ setupPc \in {ConstructOrder[1], SamplerOrder[1]}
    /\ UploadIdle
    /\ SelectIdle
    /\ SwapchainIdle
    /\ RuleIdle
    /\ BufferIdle
    /\ \E n \in 1 .. MaxMemoryTypes : memoryTypes \in [1 .. n -> AllocFlagValues]
    /\ memoryTypeBits = 0
    /\ memoryPropertyFlags = 0
    /\ memoryTypeIndex = 0
    /\ memoryResult = "none"
    /\ SampleIdle
    /\ apiCalls = <<>>
    /\ \E rounded \in BOOLEAN, typeBits \in 1 .. (2 ^ MaxMemoryTypes - 1) :
          memoryRequirements =
             [k \in ResourceKinds |->
                 [size |-> DeclaredSize(k) + (IF rounded THEN Padding(k) ELSE 0),
                  memoryTypeBits |-> typeBits]]

AllocNext == Construct \/ SamplerConstruct \/ GpuExecute \/ GpuSignalFence

SpecAlloc == AllocInit /\ [][AllocNext]_vars

\* the positions of the calls of one name that name the resource
CallsOn(name, object) ==
    {k \in DOMAIN apiCalls :
        apiCalls[k].call \in name /\ apiCalls[k].object = object}

\* the positions of the calls of one name that name the memory
CallsOnMemory(name, memory) ==
    {k \in DOMAIN apiCalls :
        apiCalls[k].call \in name /\ apiCalls[k].memory = memory}

CreateCalls == {"vkCreateBuffer", "vkCreateImage"}

RequirementCalls == {"vkGetBufferMemoryRequirements", "vkGetImageMemoryRequirements"}

BindCalls == {"vkBindBufferMemory", "vkBindImageMemory"}

\* C21: every bind of a resource to memory, at offset 0, comes after the
\* creation of that resource, the query of that resource's requirements,
\* the successful resolution of a memory type from exactly those
\* requirements and the allocation of that memory with the size the query
\* returned and the index the resolution returned, in this order; every
\* resource with memory was bound by such a call, no resource is bound
\* twice, no memory is allocated twice or bound to two resources, and once
\* the constructor is through every allocation is bound.
C21_CreateQueryResolveAllocateBind ==
    /\ \A b \in DOMAIN apiCalls :
          apiCalls[b].call \in BindCalls =>
             /\ apiCalls[b].info.offset = 0
             /\ \E c \in CallsOn(CreateCalls, apiCalls[b].object),
                   q \in CallsOn(RequirementCalls, apiCalls[b].object),
                   r \in CallsOn({"vkGetMemoryTypeIndex"}, apiCalls[b].object),
                   a \in CallsOnMemory({"vkAllocateMemory"}, apiCalls[b].memory) :
                   /\ c < q /\ q < r /\ r < a /\ a < b
                   /\ apiCalls[r].info.requirements = apiCalls[q].info
                   /\ apiCalls[r].info.result = VK_SUCCESS
                   /\ apiCalls[a].info.allocationSize = apiCalls[q].info.size
                   /\ apiCalls[a].info.memoryTypeIndex = apiCalls[r].info.index
             /\ Cardinality(CallsOn(BindCalls, apiCalls[b].object)) = 1
             /\ Cardinality(CallsOnMemory(BindCalls, apiCalls[b].memory)) = 1
             /\ Cardinality(CallsOnMemory({"vkAllocateMemory"},
                                          apiCalls[b].memory)) = 1
    /\ \A o \in memoryBound : CallsOn(BindCalls, o) # {}
    /\ setupPc \in {"constructed", "samplerConstructed"} =>
          \A a \in DOMAIN apiCalls :
             apiCalls[a].call = "vkAllocateMemory" =>
                CallsOnMemory(BindCalls, apiCalls[a].memory) # {}

\* the constructor is through on a device that rounds every size up, with
\* a uniform buffer per slot for two slots
C21_Witness ==
    /\ setupPc = "constructed"
    /\ swapchainImageCount = 2
    /\ memoryRequirements["mImage"].size > DeclaredSize("mImage")
    /\ \A i \in Slots : CallsOn(BindCalls, mUniformBuffers[i]) # {}
    /\ CallsOn(BindCalls, mImage) # {}

----------------------------------------------------------------------------
(* The order of the staging upload *)

\* the positions in the log of the steps of the upload, in the order the
\* upload has to take them
UploadSteps ==
    << CallsOn({"memcpy"}, stagingBuffer),
       CallsOn({"vkCreateBuffer"}, mVertexBuffer),
       CallsOn({"vkBindBufferMemory"}, mVertexBuffer),
       CallsOn({"vkCmdCopyBuffer"}, mVertexBuffer),
       CallsOn({"vkQueueSubmit"}, NoResource),
       CallsOn({"vkQueueWaitIdle"}, NoResource),
       CallsOnMemory({"vkFreeMemory"}, stagingMemory),
       CallsOn({"vkDestroyBuffer"}, stagingBuffer) >>

\* the staging memory or the staging buffer has been released
StagingReleased ==
    \/ CallsOnMemory({"vkFreeMemory"}, stagingMemory) # {}
    \/ CallsOn({"vkDestroyBuffer"}, stagingBuffer) # {}

\* C22: each step of the upload (fill the staging buffer through the
\* mapping, create the target, bind it, record the copy, submit, wait for
\* the queue to be idle, free the staging memory, destroy the staging
\* buffer) is taken at most once and only after the step before it; once
\* the staging buffer is released the queue holds no submission that reads
\* it and the wait has returned with success; no render() call starts
\* before the staging buffer is destroyed.
C22_UploadOrder ==
    /\ LET taken == UploadSteps IN
          \A n \in DOMAIN taken :
             /\ Cardinality(taken[n]) <= 1
             /\ (n > 1 /\ taken[n] # {}) =>
                   \E before \in taken[n - 1] :
                      \A after \in taken[n] : before < after
    /\ StagingReleased =>
          /\ \A k \in DOMAIN submissions :
                stagingBuffer \notin submissions[k].resources
          /\ bufferData["mVertexBuffer"] = vertices
    /\ (slotHistory # <<>> \/ pc \notin {"idle", "abort"}) =>
          CallsOn({"vkDestroyBuffer"}, stagingBuffer) # {}

\* the upload is through, the staging buffer is gone and a render() call
\* has submitted its frame
C22_Witness ==
    /\ CallsOn({"vkDestroyBuffer"}, stagingBuffer) # {}
    /\ stagingBuffer \notin memoryBound
    /\ \E k \in DOMAIN submissions : submissions[k].frame >= 0

----------------------------------------------------------------------------
(* The lifetime of a VkRenderer: constructor, render() calls, destructor *)

MaxRenders == 2

Samples == {"hello-graceful-shutdown", "vulkan-sampler", "vulkan-buffer"}

\* a handle held in a member or local; the elements of a vector carry
\* their index, a call on the whole vector carries AllSlots
Handle(name, index) == [name |-> name, index |-> index]

AllSlots == 0 - 1

NoHandle == Handle("none", 0)

LifetimeCall(call, name, index) ==
    [call |-> call, handle |-> Handle(name, index), size |-> "none"]

MapCall(name, index, size) ==
    [call |-> "vkMapMemory", handle |-> Handle(name, index), size |-> size]

\* a loop over the slots 0 .. n-1 whose body makes len calls
Each(n, Body(_), len) ==
    [k \in 1 .. n * len |-> Body((k - 1) \div len)[((k - 1) % len) + 1]]

\* the calls made through VK_CHECK_ERROR
LifetimeCheckedCalls ==
    {"vkCreateInstance", "vkCreateDevice", "vkCreateAndroidSurfaceKHR",
     "vkCreateSwapchainKHR", "vkCreateImageView", "vkCreateCommandPool",
     "vkAllocateCommandBuffers", "vkCreateFence", "vkCreateSemaphore",
     "vkCreateRenderPass", "vkCreateFramebuffer", "vkCreateShaderModule",
     "vkCreateDescriptorSetLayout", "vkCreatePipelineLayout",
     "vkCreateGraphicsPipelines", "vkCreateBuffer", "vkAllocateMemory",
     "vkMapMemory", "vkCreateTexture", "vkCreateImage", "vkCreateSampler",
     "vkCreateDescriptorPool", "vkAllocateDescriptorSets", "vkDeviceWaitIdle",
     "vkWaitForFences", "vkResetFences", "vkAcquireNextImageKHR",
     "vkBeginCommandBuffer", "vkEndCommandBuffer", "vkQueueSubmit",
     "vkQueuePresentKHR", "vkQueueWaitIdle"}

CreatingCalls ==
    {c \in LifetimeCheckedCalls :
        c \notin {"vkMapMemory", "vkDeviceWaitIdle", "vkWaitForFences",
                  "vkResetFences", "vkAcquireNextImageKHR",
                  "vkBeginCommandBuffer", "vkEndCommandBuffer",
                  "vkQueueSubmit", "vkQueuePresentKHR", "vkQueueWaitIdle"}}

DestroyingCalls ==
    {"vkFreeDescriptorSets", "vkDestroyDescriptorPool", "vkDestroySampler",
     "vkDestroyImageView", "vkFreeMemory", "vkDestroyImage",
     "vkDestroyTexture", "vkDestroyBuffer", "vkDestroyDescriptorSetLayout",
     "vkDestroyPipelineLayout", "vkDestroyPipeline", "vkDestroyShaderModule",
     "vkDestroyFramebuffer", "vkDestroyRenderPass", "vkDestroySemaphore",
     "vkDestroyFence", "vkFreeCommandBuffers", "vkDestroyCommandPool",
     "vkDestroySwapchainKHR", "vkDestroySurfaceKHR", "vkDestroyDevice",
     "vkDestroyInstance"}

\* hello-graceful-shutdown 132-375, vulkan-sampler 114-357, vulkan-buffer
\* 107-345: instance, device, surface, swapchain, one view per swapchain
\* image, command pool
SwapchainCalls(n) ==
    << LifetimeCall("vkCreateInstance", "mInstance", 0),
       LifetimeCall("vkCreateDevice", "mDevice", 0),
       LifetimeCall("vkCreateAndroidSurfaceKHR", "mSurface", 0),
       LifetimeCall("vkCreateSwapchainKHR", "mSwapchain", 0) >>
    \o Each(n, LAMBDA i : << LifetimeCall("vkCreateImageView",
                                          "mSwapchainImageViews", i) >>, 1)
    \o << LifetimeCall("vkCreateCommandPool", "mCommandPool", 0) >>

\* render pass, one framebuffer per swapchain image, the two shader modules
RenderPassCalls(n) ==
    << LifetimeCall("vkCreateRenderPass", "mRenderPass", 0) >>
    \o Each(n, LAMBDA i : << LifetimeCall("vkCreateFramebuffer",
                                          "mFramebuffers", i) >>, 1)
    \o << LifetimeCall("vkCreateShaderModule", "mVertexShaderModule", 0),
          LifetimeCall("vkCreateShaderModule", "mFragmentShaderModule", 0) >>

\* the texture, its image, the image's memory and the row copy through a
\* mapping (hello-graceful-shutdown 947-1039, vulkan-sampler 797-890)
TextureLifetimeCalls ==
    << LifetimeCall("vkCreateTexture", "mTexture", 0),
       LifetimeCall("vkCreateImage", "mImage", 0),
       LifetimeCall("vkAllocateMemory", "mMemory", 0),
       MapCall("mMemory", 0, "VK_WHOLE_SIZE"),
       LifetimeCall("vkUnmapMemory", "mMemory", 0) >>

\* hello-graceful-shutdown 80-1225
GracefulConstructorCalls(n) ==
    SwapchainCalls(n)
    \o << LifetimeCall("vkAllocateCommandBuffers", "mCommandBuffers", AllSlots) >>
    \o Each(n, LAMBDA i : << LifetimeCall("vkCreateFence",
                                          "mFencesForSubmit", i) >>, 1)
    \o Each(n, LAMBDA i : << LifetimeCall("vkCreateFence",
                                          "mFencesForAcquire", i) >>, 1)
    \o Each(n, LAMBDA i : << LifetimeCall("vkCreateSemaphore",
                                          "mSemaphores", i) >>, 1)
    \o RenderPassCalls(n)
    \o << LifetimeCall("vkCreateDescriptorSetLayout", "mDescriptorSetLayout", 0),
          LifetimeCall("vkCreatePipelineLayout", "mPipelineLayout", 0),
          LifetimeCall("vkCreateGraphicsPipelines", "mPipeline", 0),
          LifetimeCall("vkCreateBuffer", "stagingBuffer", 0),
          LifetimeCall("vkAllocateMemory", "stagingMemory", 0),
          MapCall("stagingMemory", 0, "vertexDataSize"),
          LifetimeCall("vkUnmapMemory", "stagingMemory", 0),
          LifetimeCall("vkCreateBuffer", "mVertexBuffer", 0),
          LifetimeCall("vkAllocateMemory", "mVertexMemory", 0) >>
    \o Each(n, LAMBDA i :
                  << LifetimeCall("vkCreateBuffer", "mUniformBuffers", i),
                     LifetimeCall("vkAllocateMemory", "mUniformMemories", i),
                     MapCall("mUniformMemories", i, "VK_WHOLE_SIZE") >>, 3)
    \o TextureLifetimeCalls
    \o << LifetimeCall("vkCreateImageView", "mImageView", 0),
          LifetimeCall("vkQueueSubmit", "mQueue", 0),
          LifetimeCall("vkQueueWaitIdle", "mQueue", 0),
          LifetimeCall("vkFreeMemory", "stagingMemory", 0),
          LifetimeCall("vkDestroyBuffer", "stagingBuffer", 0),
          LifetimeCall("vkCreateSampler", "mSampler", 0),
          LifetimeCall("vkCreateDescriptorPool", "mDescriptorPool", 0) >>
    \o Each(n, LAMBDA i : << LifetimeCall("vkAllocateDescriptorSets",
                                          "mDescriptorSets", i) >>, 1)

\* vulkan-sampler 62-959 and vulkan-buffer 56-626 up to the shader modules
SingleSlotCalls(n) ==
    SwapchainCalls(n)
    \o << LifetimeCall("vkAllocateCommandBuffers", "mCommandBuffer", 0),
          LifetimeCall("vkCreateFence", "mFence", 0),
          LifetimeCall("vkCreateSemaphore", "mSemaphore", 0) >>
    \o RenderPassCalls(n)

\* vulkan-sampler 62-959
SamplerConstructorCalls(n) ==
    SingleSlotCalls(n)
    \o << LifetimeCall("vkCreateDescriptorSetLayout", "mDescriptorSetLayout", 0),
          LifetimeCall("vkCreatePipelineLayout", "mPipelineLayout", 0),
          LifetimeCall("vkCreateGraphicsPipelines", "mPipeline", 0),
          LifetimeCall("vkCreateBuffer", "mVertexBuffer", 0),
          LifetimeCall("vkAllocateMemory", "mVertexMemory", 0),
          MapCall("mVertexMemory", 0, "vertexDataSize"),
          LifetimeCall("vkUnmapMemory", "mVertexMemory", 0),
          LifetimeCall("vkCreateBuffer", "mUniformBuffer", 0),
          LifetimeCall("vkAllocateMemory", "mUniformMemory", 0),
          MapCall("mUniformMemory", 0, "VK_WHOLE_SIZE") >>
    \o TextureLifetimeCalls
    \o << LifetimeCall("vkCreateSampler", "mSampler", 0),
          LifetimeCall("vkCreateDescriptorPool", "mDescriptorPool", 0),
          LifetimeCall("vkAllocateDescriptorSets", "mDescriptorSet", 0) >>

\* vulkan-buffer 56-626
BufferConstructorCalls(n) ==
    SingleSlotCalls(n)
    \o << LifetimeCall("vkCreatePipelineLayout", "mPipelineLayout", 0),
          LifetimeCall("vkCreateGraphicsPipelines", "mPipeline", 0),
          LifetimeCall("vkCreateBuffer", "mVertexBuffer", 0) >>

ConstructorCalls(s, n) ==
    CASE s = "hello-graceful-shutdown" -> GracefulConstructorCalls(n)
      [] s = "vulkan-sampler" -> SamplerConstructorCalls(n)
      [] s = "vulkan-buffer" -> BufferConstructorCalls(n)

\* the tail the three destructors share (1251-1264, 973-986, 630-642):
\* layouts, pipeline, shader modules, framebuffers, render pass, image views
PipelineDestructorCalls(n) ==
    << LifetimeCall("vkDestroyPipelineLayout", "mPipelineLayout", 0),
       LifetimeCall("vkDestroyPipeline", "mPipeline", 0),
       LifetimeCall("vkDestroyShaderModule", "mVertexShaderModule", 0),
       LifetimeCall("vkDestroyShaderModule", "mFragmentShaderModule", 0) >>
    \o Each(n, LAMBDA i : << LifetimeCall("vkDestroyFramebuffer",
                                          "mFramebuffers", i) >>, 1)
    \o << LifetimeCall("vkDestroyRenderPass", "mRenderPass", 0) >>
    \o Each(n, LAMBDA i : << LifetimeCall("vkDestroyImageView",
                                          "mSwapchainImageViews", i) >>, 1)

\* the instance is destroyed before the surface and the device
DeviceDestructorCalls_InstanceFirst ==
    << LifetimeCall("vkDestroyCommandPool", "mCommandPool", 0),
       LifetimeCall("vkDestroySwapchainKHR", "mSwapchain", 0),
       LifetimeCall("vkDestroyInstance", "mInstance", 0),
       LifetimeCall("vkDestroySurfaceKHR", "mSurface", 0),
       LifetimeCall("vkDestroyDevice", "mDevice", 0) >>

\* 1278-1282, 990-994, 646-650
DeviceDestructorCalls ==
    << LifetimeCall("vkDestroyCommandPool", "mCommandPool", 0),
       LifetimeCall("vkDestroySwapchainKHR", "mSwapchain", 0),
       LifetimeCall("vkDestroySurfaceKHR", "mSurface", 0),
       LifetimeCall("vkDestroyDevice", "mDevice", 0),
       LifetimeCall("vkDestroyInstance", "mInstance", 0) >>

\* 987-994, 643-650
SingleSlotDestructorCalls ==
    << LifetimeCall("vkDestroySemaphore", "mSemaphore", 0),
       LifetimeCall("vkDestroyFence", "mFence", 0),
       LifetimeCall("vkFreeCommandBuffers", "mCommandBuffer", 0) >>
    \o DeviceDestructorCalls

\* the uniform memories are freed while they are still mapped
UniformDestructorCalls_FreeMapped(n) ==
    Each(n, LAMBDA i : << LifetimeCall("vkFreeMemory",
                                       "mUniformMemories", i) >>, 1)
    \o Each(n, LAMBDA i : << LifetimeCall("vkUnmapMemory",
                                          "mUniformMemories", i) >>, 1)
    \o Each(n, LAMBDA i : << LifetimeCall("vkDestroyBuffer",
                                          "mUniformBuffers", i) >>, 1)

\* hello-graceful-shutdown 1237-1248: three loops, each over every slot:
\* unmap the uniform memories, free them, destroy the uniform buffers
UniformDestructorCalls(n) ==
    Each(n, LAMBDA i : << LifetimeCall("vkUnmapMemory",
                                       "mUniformMemories", i) >>, 1)
    \o Each(n, LAMBDA i : << LifetimeCall("vkFreeMemory",
                                          "mUniformMemories", i) >>, 1)
    \o Each(n, LAMBDA i : << LifetimeCall("vkDestroyBuffer",
                                          "mUniformBuffers", i) >>, 1)

\* hello-graceful-shutdown 1228-1283
GracefulDestructorCalls(n) ==
    << LifetimeCall("vkDeviceWaitIdle", "mDevice", 0),
       LifetimeCall("vkFreeDescriptorSets", "mDescriptorSets", AllSlots),
       LifetimeCall("vkDestroyDescriptorPool", "mDescriptorPool", 0),
       LifetimeCall("vkDestroySampler", "mSampler", 0),
       LifetimeCall("vkDestroyImageView", "mImageView", 0),
       LifetimeCall("vkFreeMemory", "mMemory", 0),
       LifetimeCall("vkDestroyImage", "mImage", 0),
       LifetimeCall("vkDestroyTexture", "mTexture", 0) >>
    \o UniformDestructorCalls(n)
    \o << LifetimeCall("vkFreeMemory", "mVertexMemory", 0),
          LifetimeCall("vkDestroyBuffer", "mVertexBuffer", 0),
          LifetimeCall("vkDestroyDescriptorSetLayout", "mDescriptorSetLayout", 0) >>
    \o PipelineDestructorCalls(n)
    \o Each(n, LAMBDA i : << LifetimeCall("vkDestroySemaphore",
                                          "mSemaphores", i) >>, 1)
    \o Each(n, LAMBDA i : << LifetimeCall("vkDestroyFence",
                                          "mFencesForAcquire", i) >>, 1)
    \o Each(n, LAMBDA i : << LifetimeCall("vkDestroyFence",
                                          "mFencesForSubmit", i) >>, 1)
    \o << LifetimeCall("vkFreeCommandBuffers", "mCommandBuffers", AllSlots) >>
    \o DeviceDestructorCalls

\* vulkan-sampler 961-995
SamplerDestructorCalls(n) ==
    << LifetimeCall("vkFreeDescriptorSets", "mDescriptorSet", 0),
       LifetimeCall("vkDestroyDescriptorPool", "mDescriptorPool", 0),
       LifetimeCall("vkDestroySampler", "mSampler", 0),
       LifetimeCall("vkFreeMemory", "mMemory", 0),
       LifetimeCall("vkDestroyImage", "mImage", 0),
       LifetimeCall("vkDestroyTexture", "mTexture", 0),
       LifetimeCall("vkUnmapMemory", "mUniformMemory", 0),
       LifetimeCall("vkFreeMemory", "mUniformMemory", 0),
       LifetimeCall("vkDestroyBuffer", "mUniformBuffer", 0),
       LifetimeCall("vkFreeMemory", "mVertexMemory", 0),
       LifetimeCall("vkDestroyBuffer", "mVertexBuffer", 0),
       LifetimeCall("vkDestroyDescriptorSetLayout", "mDescriptorSetLayout", 0) >>
    \o PipelineDestructorCalls(n)
    \o SingleSlotDestructorCalls

\* the command pool goes before the command buffer allocated from it
BufferDestructorCalls_PoolFirst(n) ==
    << LifetimeCall("vkDestroyBuffer", "mVertexBuffer", 0),
       LifetimeCall("vkDestroyCommandPool", "mCommandPool", 0) >>
    \o PipelineDestructorCalls(n)
    \o << LifetimeCall("vkDestroySemaphore", "mSemaphore", 0),
          LifetimeCall("vkDestroyFence", "mFence", 0),
          LifetimeCall("vkFreeCommandBuffers", "mCommandBuffer", 0) >>
    \o SubSeq(DeviceDestructorCalls, 2, 5)

\* vulkan-buffer 628-651
BufferDestructorCalls(n) ==
    << LifetimeCall("vkDestroyBuffer", "mVertexBuffer", 0) >>
    \o PipelineDestructorCalls(n)
    \o SingleSlotDestructorCalls

DestructorCalls(s, n) ==
    CASE s = "hello-graceful-shutdown" -> GracefulDestructorCalls(n)
      [] s = "vulkan-sampler" -> SamplerDestructorCalls(n)
      [] s = "vulkan-buffer" -> BufferDestructorCalls(n)

\* the Vulkan calls of one render() call of hello-graceful-shutdown
\* (1285-1449) on slot i
GracefulRenderCalls(i) ==
    << LifetimeCall("vkWaitForFences", "mFencesForSubmit", i),
       LifetimeCall("vkResetFences", "mFencesForSubmit", i),
       LifetimeCall("vkAcquireNextImageKHR", "mFencesForAcquire", i),
       LifetimeCall("vkWaitForFences", "mFencesForAcquire", i),
       LifetimeCall("vkResetFences", "mFencesForAcquire", i),
       LifetimeCall("vkResetCommandBuffer", "mCommandBuffers", i),
       LifetimeCall("vkBeginCommandBuffer", "mCommandBuffers", i),
       LifetimeCall("vkCmdBeginRenderPass", "mCommandBuffers", i),
       LifetimeCall("vkCmdSetViewport", "mCommandBuffers", i),
       LifetimeCall("vkCmdSetScissor", "mCommandBuffers", i),
       LifetimeCall("vkCmdBindPipeline", "mCommandBuffers", i),
       LifetimeCall("vkCmdBindVertexBuffers", "mCommandBuffers", i),
       LifetimeCall("vkCmdBindDescriptorSets", "mCommandBuffers", i),
       LifetimeCall("vkCmdDraw", "mCommandBuffers", i),
       LifetimeCall("vkCmdEndRenderPass", "mCommandBuffers", i),
       LifetimeCall("vkEndCommandBuffer", "mCommandBuffers", i),
       LifetimeCall("vkQueueSubmit", "mQueue", 0),
       LifetimeCall("vkQueuePresentKHR", "mQueue", 0) >>

\* vulkan-sampler 997-1125 and, without its two bind calls, vulkan-buffer
\* 653-757
SingleSlotRenderCalls(s) ==
    << LifetimeCall("vkAcquireNextImageKHR", "mFence", 0),
       LifetimeCall("vkWaitForFences", "mFence", 0),
       LifetimeCall("vkResetFences", "mFence", 0),
       LifetimeCall("vkResetCommandBuffer", "mCommandBuffer", 0),
       LifetimeCall("vkBeginCommandBuffer", "mCommandBuffer", 0),
       LifetimeCall("vkCmdBeginRenderPass", "mCommandBuffer", 0),
       LifetimeCall("vkCmdBindPipeline", "mCommandBuffer", 0) >>
    \o (IF s = "vulkan-sampler"
        THEN << LifetimeCall("vkCmdBindVertexBuffers", "mCommandBuffer", 0),
                LifetimeCall("vkCmdBindDescriptorSets", "mCommandBuffer", 0) >>
        ELSE <<>>)
    \o << LifetimeCall("vkCmdDraw", "mCommandBuffer", 0),
          LifetimeCall("vkCmdEndRenderPass", "mCommandBuffer", 0),
          LifetimeCall("vkEndCommandBuffer", "mCommandBuffer", 0),
          LifetimeCall("vkQueueSubmit", "mQueue", 0),
          LifetimeCall("vkQueuePresentKHR", "mQueue", 0),
          LifetimeCall("vkQueueWaitIdle", "mQueue", 0) >>

\* the render() calls made so far
Renders ==
    Cardinality({k \in DOMAIN lifetimeCalls :
                    lifetimeCalls[k].call = "vkResetCommandBuffer"})

RenderCalls(s, n) ==
    IF s = "hello-graceful-shutdown" THEN GracefulRenderCalls(Renders % n)
    ELSE SingleSlotRenderCalls(s)

\* every call of the block is made, or a checked call fails and the
\* VK_CHECK_ERROR around it ends the process
LifetimeOutcomes(block) ==
    {[aborted |-> FALSE, made |-> block]}
    \cup {[aborted |-> TRUE, made |-> SubSeq(block, 1, k)] :
             k \in {n \in DOMAIN block : block[n].call \in LifetimeCheckedCalls}}

lifetimeOtherVars == <<frameVars, uploadVars, memVars, selectVars,
                       swapchainVars, ruleVars, bufferVars, allocVars,
                       textureCopy, shaderCompile,
                       descriptorVars>>

\* one phase of the object's life runs to its end or to an abort
LifetimePhase(from, block, to) ==
    /\ lifetimePc = from
    /\ \E outcome \in LifetimeOutcomes(block) :
          /\ lifetimeCalls' = lifetimeCalls \o outcome.made
          /\ lifetimePc' = IF outcome.aborted THEN "aborted" ELSE to
    /\ UNCHANGED <<sample, lifetimeOtherVars>>

Constructor ==
    LifetimePhase("new", ConstructorCalls(sample, swapchainImageCount), "constructed")

RenderCall ==
    /\ Renders < MaxRenders
    /\ LifetimePhase("constructed", RenderCalls(sample, swapchainImageCount),
                     "constructed")

Destructor ==
    LifetimePhase("constructed", DestructorCalls(sample, swapchainImageCount),
                  "destroyed")

LifetimeInit ==
    /\ swapchainImageCount \in 1 .. MaxImages
    /\ FrameInit
    /\ vertices = VertexArray
    /\ setupPc = "none"
    /\ UploadIdle
    /\ MemIdle
    /\ SelectIdle
    /\ SwapchainIdle
    /\ RuleIdle
    /\ BufferIdle
    /\ AllocIdle
    /\ sample \in Samples
    /\ lifetimePc = "new"
    /\ lifetimeCalls = <<>>
    /\ textureCopy = NoTextureCopy
    /\ shaderCompile = NoShaderCompile

LifetimeNext == Constructor \/ RenderCall \/ Destructor

SpecLifetime == LifetimeInit /\ [][LifetimeNext]_vars

\* the call at position k of the log creates, or destroys, the handle
Creates(k, h) ==
    /\ lifetimeCalls[k].call \in CreatingCalls
    /\ lifetimeCalls[k].handle = h

Destroys(k, h) ==
    /\ lifetimeCalls[k].call \in DestroyingCalls
    /\ lifetimeCalls[k].handle.name = h.name
    /\ lifetimeCalls[k].handle.index \in {h.index, AllSlots}

\* the handles the log names with their own index; a handle created with
\* AllSlots stands for the whole vector
CreatedHandles ==
    {lifetimeCalls[k].handle :
        k \in {n \in DOMAIN lifetimeCalls :
                  lifetimeCalls[n].call \in CreatingCalls}}

CreatedAt(h) == {k \in DOMAIN lifetimeCalls : Creates(k, h)}

DestroyedAt(h) == {k \in DOMAIN lifetimeCalls : Destroys(k, h)}

\* the positions from which the destructor's calls are in the log
InDestructor(k) ==
    /\ lifetimePc = "destroyed"
    /\ k > Len(lifetimeCalls) - Len(DestructorCalls(sample, swapchainImageCount))

\* the handle that a create call is given as the parent of its object, or
\* whose object the new one refers to for its whole life
Parents(h) ==
    CASE h.name = "mInstance" -> {}
      [] h.name \in {"mDevice", "mSurface"} -> {Handle("mInstance", 0)}
      [] h.name = "mSwapchain" -> {Handle("mDevice", 0), Handle("mSurface", 0)}
      [] h.name \in {"mSwapchainImageViews"} ->
            {Handle("mDevice", 0), Handle("mSwapchain", 0)}
      [] h.name \in {"mCommandBuffers", "mCommandBuffer"} ->
            {Handle("mDevice", 0), Handle("mCommandPool", 0)}
      [] h.name = "mFramebuffers" ->
            {Handle("mDevice", 0), Handle("mRenderPass", 0),
             Handle("mSwapchainImageViews", h.index)}
      [] h.name = "mImageView" -> {Handle("mDevice", 0), Handle("mImage", 0)}
      [] h.name \in {"mDescriptorSets", "mDescriptorSet"} ->
            {Handle("mDevice", 0), Handle("mDescriptorPool", 0)}
      [] OTHER -> {Handle("mDevice", 0)}

----------------------------------------------------------------------------
(* The mapping of the uniform memory *)

\* the positions of the calls of one name on the handle
LifetimeCallsOn(name, h) ==
    {k \in DOMAIN lifetimeCalls :
        lifetimeCalls[k].call = name /\ lifetimeCalls[k].handle = h}

\* the uniform memories that have been allocated
UniformMemories ==
    {h \in CreatedHandles : h.name \in {"mUniformMemories", "mUniformMemory"}}

\* the positions of the log that the constructor's calls take
InConstructor(k) == k <= Len(ConstructorCalls(sample, swapchainImageCount))

\* C24: every uniform memory is mapped at most once, whole, by the
\* constructor after its allocation; in a constructed renderer each is
\* mapped and not unmapped, however many render() calls were made; it is
\* unmapped once, by the destructor, before the destructor frees it; no
\* call between the constructor's and the destructor's maps or unmaps
\* memory.
C24_UniformMappedOnceUntilDestructor ==
    /\ \A h \in UniformMemories :
          LET maps == LifetimeCallsOn("vkMapMemory", h)
              unmaps == LifetimeCallsOn("vkUnmapMemory", h)
              frees == LifetimeCallsOn("vkFreeMemory", h)
          IN  /\ Cardinality(maps) <= 1
              /\ \A k \in maps :
                    /\ InConstructor(k)
                    /\ lifetimeCalls[k].size = "VK_WHOLE_SIZE"
                    /\ \E a \in CreatedAt(h) : a < k
              /\ lifetimePc = "constructed" =>
                    Cardinality(maps) = 1 /\ unmaps = {}
              /\ \A k \in unmaps \cup frees : InDestructor(k)
              /\ lifetimePc = "destroyed" =>
                    /\ Cardinality(unmaps) = 1
                    /\ Cardinality(frees) = 1
                    /\ \A u \in unmaps, f \in frees, m \in maps :
                          m < u /\ u < f
    /\ \A k \in DOMAIN lifetimeCalls :
          lifetimeCalls[k].call \in {"vkMapMemory", "vkUnmapMemory"} =>
             InConstructor(k) \/ InDestructor(k)

\* a hello-graceful-shutdown renderer is destroyed after two render() calls
C24_Witness ==
    /\ sample = "hello-graceful-shutdown"
    /\ lifetimePc = "destroyed"
    /\ Renders >= 2
    /\ UniformMemories # {}

----------------------------------------------------------------------------
(* The copy of the texture's rows into the mapped image memory *)

MaxWidth == 2

MaxHeight == 2

\* largest number of bytes a row of the image has beyond its texels
MaxPadding == 2

\* the texel data of the decoded file starts at one of these byte values
\* and counts up, so that every offset of a small texture holds another
\* value
TexelSeeds == {0, 100, 250}

\* a byte of the mapped memory that nothing has written
Unwritten == 0 - 1

\* one row of the source holds as many bytes as it has texels
srcRowPitch_Texels(extent) == extent.width

\* 1032: srcRowPitch = textureProperties.extent.width * 4
srcRowPitch(extent) == extent.width * BytesPerTexel

\* 1031, 1033-1036: memcpy(imageData + dstOffset, pData + srcOffset,
\* srcRowPitch) for row h; sequences are indexed from 1, offsets from 0
CopyRow(imageData, pData, extent, subresourceLayout, h) ==
    LET dstOffset == h * subresourceLayout.rowPitch
        srcOffset == h * srcRowPitch(extent)
    IN  [k \in DOMAIN imageData |->
            IF k - 1 >= dstOffset /\ k - 1 < dstOffset + srcRowPitch(extent)
            THEN pData[(k - 1 - dstOffset) + srcOffset + 1]
            ELSE imageData[k]]

\* 1030-1037: for (auto h = 0; h < extent.height; ++h), from row h on
RECURSIVE CopyRows(_, _, _, _, _)
CopyRows(imageData, pData, extent, subresourceLayout, h) ==
    IF h < extent.height
    THEN CopyRows(CopyRow(imageData, pData, extent, subresourceLayout, h),
                  pData, extent, subresourceLayout, h + 1)
    ELSE imageData

textureOtherVars == <<frameVars, uploadVars, memVars, selectVars,
                      swapchainVars, ruleVars, bufferVars, allocVars, sample,
                      lifetimePc, lifetimeCalls, shaderCompile,
                       descriptorVars>>

\* 1028: the whole allocation is mapped; a failure ends the process
MapImageMemory ==
    /\ textureCopy.pc = "vkMapMemory"
    /\ \E vkResult \in CallResults :
          textureCopy' = [textureCopy EXCEPT
                             !.pc = IF vkResult = VK_SUCCESS THEN "copy"
                                    ELSE "aborted"]
    /\ UNCHANGED textureOtherVars

\* 1030-1037: the row loop
CopyTexture ==
    /\ textureCopy.pc = "copy"
    /\ textureCopy' = [textureCopy EXCEPT
                          !.pc = "vkUnmapMemory",
                          !.imageData = CopyRows(@, textureCopy.pData,
                                                 textureCopy.extent,
                                                 textureCopy.subresourceLayout,
                                                 0)]
    /\ UNCHANGED textureOtherVars

\* 1039
UnmapImageMemory ==
    /\ textureCopy.pc = "vkUnmapMemory"
    /\ textureCopy' = [textureCopy EXCEPT !.pc = "copied"]
    /\ UNCHANGED textureOtherVars

\* a decoded texture of w x h texels of four bytes, the row pitch the
\* driver reports for the linear image (at least one row of texels) and
\* freshly mapped image memory of h rows
TextureInit ==
    /\ swapchainImageCount \in 1 .. MaxImages
    /\ FrameInit
    /\ vertices = VertexArray
    /\ setupPc = "none"
    /\ UploadIdle
    /\ MemIdle
    /\ SelectIdle
    /\ SwapchainIdle
    /\ RuleIdle
    /\ BufferIdle
    /\ AllocIdle
    /\ sample = "none"
    /\ lifetimePc = "none"
    /\ lifetimeCalls = <<>>
    /\ shaderCompile = NoShaderCompile
    /\ \E w \in 1 .. MaxWidth, h \in 1 .. MaxHeight, padding \in 0 .. MaxPadding,
          seed \in TexelSeeds :
          textureCopy =
             [pc |-> "vkMapMemory",
              extent |-> [width |-> w, height |-> h],
              subresourceLayout |-> [rowPitch |-> BytesPerTexel * w + padding],
              pData |-> [k \in 1 .. BytesPerTexel * w * h |->
                            (seed + k - 1) % 256],
              imageData |-> [k \in 1 .. (BytesPerTexel * w + padding) * h |->
                                Unwritten]]

TextureNext == MapImageMemory \/ CopyTexture \/ UnmapImageMemory

SpecTexture == TextureInit /\ [][TextureNext]_vars

\* C25: after the row loop, with w, h the texture's extent and p the row
\* pitch, the destination byte at offset r*p + x is the source byte at
\* offset r*4*w + x for every row r < h and every x < 4*w, and the bytes at
\* the offsets r*p + 4*w .. r*p + p - 1 have not been written.
C25_RowsCopiedPaddingUntouched ==
    textureCopy.pc \in {"vkUnmapMemory", "copied"} =>
       LET w == textureCopy.extent.width
           h == textureCopy.extent.height
           rowPitch == textureCopy.subresourceLayout.rowPitch
       IN  \A r \in 0 .. h - 1 :
              /\ \A x \in 0 .. 4 * w - 1 :
                    textureCopy.imageData[r * rowPitch + x + 1] =
                       textureCopy.pData[r * 4 * w + x + 1]
              /\ \A x \in 4 * w .. rowPitch - 1 :
                    textureCopy.imageData[r * rowPitch + x + 1] = Unwritten

\* a texture of more than one row and more than one texel per row has been
\* copied into an image whose rows are padded
C25_Witness ==
    /\ textureCopy.pc = "copied"
    /\ textureCopy.extent.width > 1
    /\ textureCopy.extent.height > 1
    /\ textureCopy.subresourceLayout.rowPitch > 4 * textureCopy.extent.width

----------------------------------------------------------------------------
(* vkCompileShader (VkUtil.h 156-181) and its two calls (VkRenderer.cpp
   509-559) *)

VK_ERROR_UNKNOWN == "VK_ERROR_UNKNOWN"

shaderc_compilation_status_success == "shaderc_compilation_status_success"

\* GLSL sources: the minimal shader of ShadercTest.cpp 30-34, the two
\* shaders of VkRenderer.cpp 484-507 and 528-543, and sources the compiler
\* rejects
ShaderCodes ==
    {[name |-> "void main() {}", wellFormed |-> TRUE],
     [name |-> "vertexShaderCode", wellFormed |-> TRUE],
     [name |-> "fragmentShaderCode", wellFormed |-> TRUE],
     [name |-> "void main() {", wellFormed |-> FALSE]}

\* what shaderc::Compiler::CompileGlslToSpv can report for a source
CompilationStatuses(shaderCode) ==
    IF shaderCode.wellFormed
    THEN {shaderc_compilation_status_success}
    ELSE {"shaderc_compilation_status_invalid_stage",
          "shaderc_compilation_status_compilation_error"}

\* the words result.cbegin() .. result.cend() of a successful compilation
SpirvWords(shaderCode, shaderType) == <<"SPIR-V", shaderType, shaderCode.name>>

\* what a caller's vector can hold before the call
ShaderBinaries == {<<>>, <<"stale">>}

\* the vector is assigned whatever the compilation came to
vkCompileShader_AssignFirst(shaderCode, shaderType, shaderBinary, status) ==
    IF status # shaderc_compilation_status_success
    THEN [result |-> VK_ERROR_UNKNOWN, shaderBinary |-> <<>>]
    ELSE [result |-> VK_SUCCESS,
          shaderBinary |-> SpirvWords(shaderCode, shaderType)]

\* VkUtil.h 156-181, given the status of the compilation of 169-172; the tag
\* of 158-165 is 16 random letters in a string of 'a' = 97 characters and
\* only names the source in the compiler's messages
vkCompileShader(shaderCode, shaderType, shaderBinary, status) ==
    IF status # shaderc_compilation_status_success
    THEN [result |-> VK_ERROR_UNKNOWN, shaderBinary |-> shaderBinary]
    ELSE [result |-> VK_SUCCESS,
          shaderBinary |-> SpirvWords(shaderCode, shaderType)]

ShaderOrder ==
    <<"compileVertexShader", "createVertexShaderModule",
      "compileFragmentShader", "createFragmentShaderModule">>

NextShaderStep(step) ==
    IF \E k \in 1 .. Len(ShaderOrder) - 1 : ShaderOrder[k] = step
    THEN ShaderOrder[(CHOOSE k \in 1 .. Len(ShaderOrder) - 1 :
                         ShaderOrder[k] = step) + 1]
    ELSE "shadersCreated"

shaderOtherVars == <<frameVars, uploadVars, memVars, selectVars,
                     swapchainVars, ruleVars, bufferVars, allocVars, sample,
                     lifetimePc, lifetimeCalls, textureCopy,
                       descriptorVars>>

\* 509-512, 545-548: VK_CHECK_ERROR(vkCompileShader(code, type, &binary))
CompileShader(step, shaderType) ==
    /\ shaderCompile.pc = step
    /\ \E status \in CompilationStatuses(shaderCompile.code[shaderType]) :
       LET before == shaderCompile.binary[shaderType]
           compiled == vkCompileShader(shaderCompile.code[shaderType],
                                       shaderType, before, status)
       IN  shaderCompile' =
              [shaderCompile EXCEPT
                  !.pc = IF compiled.result = VK_SUCCESS
                         THEN NextShaderStep(step) ELSE "aborted",
                  !.binary[shaderType] = compiled.shaderBinary,
                  !.compiled = @ \cup
                      {[shaderType |-> shaderType, status |-> status,
                        result |-> compiled.result, before |-> before]}]
    /\ UNCHANGED shaderOtherVars

\* 514-523, 550-559: VK_CHECK_ERROR(vkCreateShaderModule(...)) with
\* .pCode = binary.data()
CreateShaderModule(step, shaderType) ==
    /\ shaderCompile.pc = step
    /\ \E vkResult \in CallResults :
          shaderCompile' =
             [shaderCompile EXCEPT
                 !.pc = IF vkResult = VK_SUCCESS
                        THEN NextShaderStep(step) ELSE "aborted",
                 !.modules = IF vkResult = VK_SUCCESS
                             THEN @ \cup {[shaderType |-> shaderType,
                                           pCode |-> shaderCompile.binary[shaderType]]}
                             ELSE @]
    /\ UNCHANGED shaderOtherVars

CompileVertexShader == CompileShader("compileVertexShader", "VK_SHADER_TYPE_VERTEX")

CreateVertexShaderModule ==
    CreateShaderModule("createVertexShaderModule", "VK_SHADER_TYPE_VERTEX")

CompileFragmentShader ==
    CompileShader("compileFragmentShader", "VK_SHADER_TYPE_FRAGMENT")

CreateFragmentShaderModule ==
    CreateShaderModule("createFragmentShaderModule", "VK_SHADER_TYPE_FRAGMENT")

ShaderTypes == {"VK_SHADER_TYPE_VERTEX", "VK_SHADER_TYPE_FRAGMENT"}

\* the constructor is about to compile its vertex shader; the sources and
\* the vectors' earlier content range over what a caller can pass
ShaderInit ==
    /\ swapchainImageCount \in 1 .. MaxImages
    /\ FrameInit
    /\ vertices = VertexArray
    /\ setupPc = "none"
    /\ UploadIdle
    /\ MemIdle
    /\ SelectIdle
    /\ SwapchainIdle
    /\ RuleIdle
    /\ BufferIdle
    /\ AllocIdle
    /\ sample = "none"
    /\ lifetimePc = "none"
    /\ lifetimeCalls = <<>>
    /\ textureCopy = NoTextureCopy
    /\ \E code \in [ShaderTypes -> ShaderCodes],
          binary \in [ShaderTypes -> ShaderBinaries] :
          shaderCompile = [pc |-> ShaderOrder[1], code |-> code,
                           binary |-> binary, compiled |-> {}, modules |-> {}]

ShaderNext ==
    \/ CompileVertexShader
    \/ CreateVertexShaderModule
    \/ CompileFragmentShader
    \/ CreateFragmentShaderModule

SpecShader == ShaderInit /\ [][ShaderNext]_vars

\* C26: a call of vkCompileShader returned VK_SUCCESS exactly if the
\* compiler reported success, and then the vector holds the compiled words;
\* otherwise it returned VK_ERROR_UNKNOWN, the vector holds what it held
\* before, the process is aborted and no shader module has been created
\* from that vector; a well-formed source compiles.
C26_CompileResult ==
    \A c \in shaderCompile.compiled :
       /\ (c.result = VK_SUCCESS) = (c.status = shaderc_compilation_status_success)
       /\ shaderCompile.code[c.shaderType].wellFormed =>
             c.status = shaderc_compilation_status_success
       /\ c.result = VK_SUCCESS =>
             shaderCompile.binary[c.shaderType] =
                SpirvWords(shaderCompile.code[c.shaderType], c.shaderType)
       /\ c.result # VK_SUCCESS =>
             /\ c.result = VK_ERROR_UNKNOWN
             /\ shaderCompile.binary[c.shaderType] = c.before
             /\ shaderCompile.pc = "aborted"
             /\ \A m \in shaderCompile.modules : m.shaderType # c.shaderType
       /\ \A m \in shaderCompile.modules :
             m.pCode = SpirvWords(shaderCompile.code[m.shaderType], m.shaderType)

\* the compilation of the fragment shader failed with a vector that held
\* something, after the vertex shader was compiled from a well-formed source
C26_Witness ==
    /\ shaderCompile.pc = "aborted"
    /\ \E c \in shaderCompile.compiled :
          c.result = VK_ERROR_UNKNOWN /\ c.before # <<>>
    /\ \E c \in shaderCompile.compiled : c.result = VK_SUCCESS

----------------------------------------------------------------------------
(* The memory types of the allocations the CPU maps *)

\* the memories the log has a vkMapMemory call for
MappedMemories ==
    {apiCalls[k].memory :
        k \in {n \in DOMAIN apiCalls : apiCalls[n].call = "vkMapMemory"}}

\* the memories bound to a resource whose memory type was resolved with
\* exactly these flags
MemoriesResolvedWith(flags) ==
    {apiCalls[b].memory :
        b \in {n \in DOMAIN apiCalls :
                  /\ apiCalls[n].call \in BindCalls
                  /\ \E r \in CallsOn({"vkGetMemoryTypeIndex"}, apiCalls[n].object) :
                        apiCalls[r].info.flags = flags}}

\* C27: every vkMapMemory call is on memory that is bound to a resource
\* whose memory type was resolved, with success, for HOST_VISIBLE and
\* HOST_COHERENT together, and the type the memory was allocated from has
\* both flags; memory of a resource resolved for DEVICE_LOCAL alone is
\* never mapped.
C27_MappedMemoryIsHostVisibleCoherent ==
    /\ \A k \in DOMAIN apiCalls :
          apiCalls[k].call = "vkMapMemory" =>
             \E b \in CallsOnMemory(BindCalls, apiCalls[k].memory) :
                /\ b < k
                /\ \E r \in CallsOn({"vkGetMemoryTypeIndex"}, apiCalls[b].object),
                      a \in CallsOnMemory({"vkAllocateMemory"}, apiCalls[k].memory) :
                      /\ r < a /\ a < b
                      /\ apiCalls[r].info.flags =
                            VK_MEMORY_PROPERTY_HOST_VISIBLE_BIT
                               + VK_MEMORY_PROPERTY_HOST_COHERENT_BIT
                      /\ apiCalls[r].info.result = VK_SUCCESS
                      /\ apiCalls[a].info.memoryTypeIndex = apiCalls[r].info.index
                      /\ LET propertyFlags ==
                                memoryTypes[apiCalls[a].info.memoryTypeIndex + 1]
                         IN  /\ BitAnd(propertyFlags,
                                       VK_MEMORY_PROPERTY_HOST_VISIBLE_BIT) # 0
                             /\ BitAnd(propertyFlags,
                                       VK_MEMORY_PROPERTY_HOST_COHERENT_BIT) # 0
    /\ MappedMemories
          \cap MemoriesResolvedWith(VK_MEMORY_PROPERTY_DEVICE_LOCAL_BIT) = {}

\* hello-graceful-shutdown is constructed on a device whose first memory
\* type is host-visible only: staging, uniform and image memory are mapped
\* and come from the second type, the vertex memory is device-local and
\* not mapped
C27_Witness ==
    /\ setupPc = "constructed"
    /\ Len(memoryTypes) = 2
    /\ memoryTypes[1] = VK_MEMORY_PROPERTY_HOST_VISIBLE_BIT
    /\ {stagingMemory, mMemory, mUniformMemories[0]} \subseteq MappedMemories
    /\ mVertexMemory \in MemoriesResolvedWith(VK_MEMORY_PROPERTY_DEVICE_LOCAL_BIT)

----------------------------------------------------------------------------
(* The fences of a slot from their creation on *)

\* the render() calls, counted from 0, that used the slot
FramesOfSlot(i) == {f \in 0 .. Len(slotHistory) - 1 : slotHistory[f + 1] = i}

\* the submissions in the queue whose fence is the slot's submit fence
SubmissionsOfSlot(i) == {k \in DOMAIN submissions : i \in submissions[k].fences}

\* no earlier render() call used the slot of the current one
FirstUseOfSlot == FramesOfSlot(mFrameIndex) = {CurrentFrame}

\* until a render() call uses a slot its submit fence is signaled and its
\* acquire fence unsignaled; the first call on a slot gets past the wait on
\* a signaled fence though nothing of the slot was ever submitted
FencesAsCreated ==
    /\ \A i \in Slots :
          FramesOfSlot(i) = {} =>
             /\ mFencesForSubmit[i]
             /\ ~mFencesForAcquire[i]
             /\ SubmissionsOfSlot(i) = {}
    /\ (pc = "resetSubmit" /\ FirstUseOfSlot) =>
          /\ mFencesForSubmit[fenceForSubmit]
          /\ SubmissionsOfSlot(mFrameIndex) = {}
          /\ completed \cap FramesOfSlot(mFrameIndex) = {}

\* a step that signals a submit fence takes the slot's only submission
\* off the queue, which has been executed and is the latest one made on
\* the slot: a later call on the slot has not reached its submit
SignaledByOwnSubmission ==
    \A i \in Slots :
       (~mFencesForSubmit[i] /\ mFencesForSubmit'[i]) =>
          /\ submissions # <<>>
          /\ SubmissionsOfSlot(i) = {1}
          /\ submissions[1].executed
          /\ submissions[1].frame \in FramesOfSlot(i)
          /\ \A f \in FramesOfSlot(i) :
                f > submissions[1].frame =>
                   /\ f = CurrentFrame
                   /\ \A n \in DOMAIN steps : steps[n] # "submit"
          /\ submissions' = Tail(submissions)

\* C28: the submit fences are created signaled and the acquire fences
\* unsignaled, so the first render() call on a slot passes its wait with
\* no submission of that slot made; after that a submit fence only becomes
\* signaled when the latest submission of its slot has completed.
C28_SubmitFenceLifecycle ==
    /\ []FencesAsCreated
    /\ [][SignaledByOwnSubmission]_vars

\* a later render() call on a slot is past its wait, the fence having been
\* reset by the first call and signaled by that call's submission
C28_Witness ==
    /\ pc = "resetSubmit"
    /\ Cardinality(FramesOfSlot(mFrameIndex)) >= 2
    /\ mFencesForSubmit[fenceForSubmit]
    /\ swapchainImageCount = 2

----------------------------------------------------------------------------
(* The commands of a frame *)

\* the names of the commands of a sequence
CommandNames(commands) == [k \in DOMAIN commands |-> commands[k].cmd]

FrameCommandNames ==
    <<"vkCmdBeginRenderPass", "vkCmdSetViewport", "vkCmdSetScissor",
      "vkCmdBindPipeline", "vkCmdBindVertexBuffers", "vkCmdBindDescriptorSets",
      "vkCmdDraw", "vkCmdEndRenderPass">>

\* the positions of a command in a sequence
PositionsOf(cmd, commands) == {k \in DOMAIN commands : commands[k].cmd = cmd}

\* every draw is after a begin of the render pass, a viewport, a scissor,
\* a pipeline bind, a vertex-buffer bind and a descriptor-set bind, and
\* before the end of the render pass
DrawInsidePass(commands) ==
    \A d \in PositionsOf("vkCmdDraw", commands) :
       /\ \A before \in {"vkCmdBeginRenderPass", "vkCmdSetViewport",
                         "vkCmdSetScissor", "vkCmdBindPipeline",
                         "vkCmdBindVertexBuffers", "vkCmdBindDescriptorSets"} :
             \E k \in PositionsOf(before, commands) : k < d
       /\ \E k \in PositionsOf("vkCmdEndRenderPass", commands) : d < k
       /\ \A k \in PositionsOf("vkCmdBeginRenderPass", commands)
                      \cup PositionsOf("vkCmdEndRenderPass", commands) :
             k < d => commands[k].cmd = "vkCmdBeginRenderPass"

\* the steps of the current render() call on its command buffer, in the
\* order they were taken
CommandBufferSteps ==
    SelectSeq(steps, LAMBDA step :
                 step \in {"resetCommandBuffer", "beginCommandBuffer",
                           "recordCommands", "endCommandBuffer", "submit"})

\* C29: a render() call works on its command buffer in the order reset,
\* begin, record, end, submit; what it records is begin render pass, set
\* viewport, set scissor, bind pipeline, bind vertex buffer, bind descriptor
\* set, draw, end render pass, with the draw inside the render pass and
\* after the binds; the command buffer handed to the queue has left the
\* recording state with exactly these commands, and being one-time-submit
\* it is executable only between its end and its submission.
C29_RecordedSequence ==
    /\ \E n \in 0 .. 5 :
          CommandBufferSteps =
             SubSeq(<<"resetCommandBuffer", "beginCommandBuffer",
                      "recordCommands", "endCommandBuffer", "submit">>, 1, n)
    /\ \A c \in Slots :
          /\ DrawInsidePass(mCommandBuffers[c].commands)
          /\ (setupPc = "constructed" /\ mCommandBuffers[c].state = "executable") =>
                /\ c = commandBuffer
                /\ pc \in {"submit", "abort"}
          /\ (setupPc = "constructed" /\ slotHistory # <<>>
              /\ mCommandBuffers[c].state \in {"executable", "pending"}) =>
                CommandNames(mCommandBuffers[c].commands) = FrameCommandNames
    /\ pc = "submit" =>
          /\ mCommandBuffers[commandBuffer].state = "executable"
          /\ CommandNames(mCommandBuffers[commandBuffer].commands)
                = FrameCommandNames
    /\ \A k \in DOMAIN submissions :
          submissions[k].frame >= 0 =>
             \A c \in submissions[k].commandBuffers :
                /\ mCommandBuffers[c].state \in {"pending", "invalid"}
                /\ CommandNames(mCommandBuffers[c].commands) = FrameCommandNames

\* the second render() call has submitted its command buffer, which holds
\* the draw and is pending
C29_Witness ==
    /\ pc = "present"
    /\ CurrentFrame >= 1
    /\ mCommandBuffers[commandBuffer].state = "pending"
    /\ PositionsOf("vkCmdDraw", mCommandBuffers[commandBuffer].commands) # {}

----------------------------------------------------------------------------
(* The fences at the calls that will signal them *)

\* the call at `step` is made in this step of the program
Calls(step) == pc = step /\ pc' # step

\* the slot's acquire fence at vkAcquireNextImageKHR (1315-1320): it is
\* unsignaled and no earlier acquire is still going to signal it
AcquireFenceIdle ==
    /\ ~mFencesForAcquire[fenceForAcquire]
    /\ acquiring[fenceForAcquire] = NoAcquire

\* the slot's submit fence at vkQueueSubmit (1429): it is unsignaled and no
\* submission in the queue is still going to signal it
SubmitFenceIdle ==
    /\ ~mFencesForSubmit[fenceForSubmit]
    /\ SubmissionsOfSlot(fenceForSubmit) = {}

\* C30: at every vkAcquireNextImageKHR the slot's acquire fence, and at
\* every vkQueueSubmit the slot's submit fence, is unsignaled and has no
\* signal operation pending, whichever slot it is and however many
\* render() calls came before.
C30_FenceIdleWhenHandedOver ==
    [][/\ Calls("acquire") => AcquireFenceIdle
       /\ Calls("submit") => SubmitFenceIdle]_vars

\* with two slots, the fourth render() call has handed both fences of its
\* slot over a second time: its submission is in the queue
C30_Witness ==
    /\ swapchainImageCount = 2
    /\ CurrentFrame = 3
    /\ pc = "present"
    /\ SubmissionsOfSlot(mFrameIndex) # {}
    /\ Cardinality(FramesOfSlot(mFrameIndex)) = 2

----------------------------------------------------------------------------
(* The swapchain image of a render() call *)

\* the images the application has acquired and not handed back
HeldImages == {j \in Images : imageOwner[j] = "app"}

\* the number of times the current render() call made the call `step`
TimesCalled(step) == Cardinality({n \in DOMAIN steps : steps[n] = step})

\* the statements of render() between the acquire and the present
HoldingSteps == {"waitAcquire", "resetAcquire", "resetCommandBuffer",
                 "beginCommandBuffer", "recordCommands", "endCommandBuffer",
                 "submit", "present"}

\* between calls and before the acquire no image is held; from the acquire
\* to the present exactly the acquired one is; after the present none is,
\* and the call has acquired once and presented once
OneImagePerCall ==
    /\ Cardinality(HeldImages) <= 1
    /\ TimesCalled("acquire") <= 1
    /\ TimesCalled("present") <= 1
    /\ pc \in {"idle", "waitSubmit", "resetSubmit", "update", "acquire"} =>
          HeldImages = {}
    /\ pc \in HoldingSteps =>
          /\ HeldImages = {swapchainImageIndex}
          /\ TimesCalled("acquire") = 1
          /\ TimesCalled("present") = 0
    /\ pc = "advance" =>
          /\ HeldImages = {}
          /\ TimesCalled("acquire") = 1
          /\ TimesCalled("present") = 1

\* an image becomes held only by a successful acquire, which stores its
\* index; a present request is queued only by the present of the same
\* call, for the index the acquire stored, and hands that image back
AcquiredIsPresented ==
    /\ HeldImages' # HeldImages =>
          \/ /\ Calls("acquire")
             /\ HeldImages = {}
             /\ HeldImages' = {swapchainImageIndex'}
          \/ /\ Calls("present")
             /\ HeldImages = {swapchainImageIndex}
             /\ HeldImages' = {}
    /\ Len(presents') > Len(presents) =>
          /\ Calls("present")
          /\ presents' = Append(presents,
                                [frame |-> CurrentFrame,
                                 waitSemaphores |-> {semaphore},
                                 imageIndex |-> swapchainImageIndex])
          /\ swapchainImageIndex \in HeldImages
    /\ (pc \in HoldingSteps /\ pc' # "abort") =>
          swapchainImageIndex' = swapchainImageIndex

\* C31: a render() call acquires one swapchain image and presents that
\* image once: between calls the application holds no acquired image,
\* within a call at most one, and the index a present request names is
\* the one the acquire of the same call returned.
C31_AcquireOnePresentIt ==
    /\ []OneImagePerCall
    /\ [][AcquiredIsPresented]_vars

\* a later render() call has presented an image whose index differs from
\* that of its slot, and holds none
C31_Witness ==
    /\ pc = "advance"
    /\ CurrentFrame >= 1
    /\ presents # <<>>
    /\ presents[Len(presents)].frame = CurrentFrame
    /\ presents[Len(presents)].imageIndex # mFrameIndex
    /\ HeldImages = {}

----------------------------------------------------------------------------
(* The uniform block of each slot *)

\* the render() calls on slot i that have written its uniform block
UpdatedFrames(i) ==
    {f \in FramesOfSlot(i) :
        f < CurrentFrame \/ \E n \in DOMAIN steps : steps[n] = "update"}

\* the entries of Uniform::position the loop at 1302 visits
MovedEntries == {k \in 0 .. (PositionCount - 1) : k % PositionStride = 0}

\* C32: each slot has its own uniform block, zero after construction;
\* a render() call moves entries 0 and 4 of the block of its own slot
\* only, so before any wrap both hold 0.01 times the number of calls
\* that used the slot, and the block a call hands to the GPU holds 0.01
\* times (call number div N, plus one): a step every N frames.
C32_PositionPerSlot ==
    /\ MovedEntries = {0, 4}
    /\ \A i \in Slots :
          LET n == Cardinality(UpdatedFrames(i)) IN
             /\ n * PositionStep <= PositionLimit
             /\ \A k \in MovedEntries :
                   mUniformData[i].position[k] = PositionStep * n
             /\ \A k \in (0 .. (PositionCount - 1)) \ MovedEntries :
                   mUniformData[i].position[k] = 0
    /\ \A f \in 0 .. CurrentFrame : slotHistory[f + 1] = f % swapchainImageCount
    /\ pc \in {"acquire", "submit", "present", "advance"} =>
          mUniformData[uniformData].position[0] =
             PositionStep * ((CurrentFrame \div swapchainImageCount) + 1)

\* with two slots, the fourth render() call has written its block: each
\* slot was written twice in four calls
C32_Witness ==
    /\ swapchainImageCount = 2
    /\ CurrentFrame = 3
    /\ pc = "submit"
    /\ \A i \in Slots :
          /\ mUniformData[i].position[0] = 2 * PositionStep
          /\ mUniformData[i].position[4] = 2 * PositionStep
          /\ mUniformData[i].position[1] = 0

----------------------------------------------------------------------------
(* VK_CHECK_ERROR at the two swapchain calls *)

\* every VkResult value the model names
ResultCodes == StatusCodes \cup CallResults \cup SwapchainResults \cup ResetResults

\* the process ended in the call `step` of a render() call
AbortedAt(step) ==
    /\ pc = "abort"
    /\ setupPc = "constructed"
    /\ steps # <<>>
    /\ steps[Len(steps)] = step

\* the macro lets VK_SUCCESS through and nothing else; render() goes on
\* after its acquire and its present only with VK_SUCCESS; a render() call
\* ended by its acquire has made no submit and no present, and one ended
\* by its acquire or its present has left the frame index alone
OnlySuccessPasses ==
    /\ \A vkResult \in ResultCodes :
          VK_CHECK_ERROR(vkResult, "next") =
             IF vkResult = VK_SUCCESS THEN "next" ELSE "abort"
    /\ pc \in {"waitAcquire", "advance"} => lastResult = VK_SUCCESS
    /\ AbortedAt("acquire") =>
          /\ lastResult \in {"VK_SUBOPTIMAL_KHR", "VK_ERROR_OUT_OF_DATE_KHR"}
          /\ TimesCalled("submit") = 0
          /\ TimesCalled("present") = 0
          /\ calls.submit = CurrentFrame
          /\ calls.present = CurrentFrame
    /\ AbortedAt("present") =>
          lastResult \in {"VK_SUBOPTIMAL_KHR", "VK_ERROR_OUT_OF_DATE_KHR"}
    /\ (AbortedAt("acquire") \/ AbortedAt("present")) =>
          /\ TimesCalled("advance") = 0
          /\ calls.advance = CurrentFrame
          /\ mFrameIndex = slotHistory[Len(slotHistory)]

\* a result other than VK_SUCCESS from the acquire or the present ends the
\* process in that step, and an ended process makes no further call
EndsTheProcess ==
    /\ ((Calls("acquire") \/ Calls("present")) /\ lastResult' # VK_SUCCESS) =>
          pc' = "abort"
    /\ pc = "abort" =>
          UNCHANGED <<pc, mFrameIndex, steps, calls, slotHistory, lastResult>>

\* C36: VK_CHECK_ERROR ends the process on every result other than
\* VK_SUCCESS, status codes such as VK_SUBOPTIMAL_KHR, VK_TIMEOUT and
\* VK_NOT_READY included; a VK_SUBOPTIMAL_KHR or VK_ERROR_OUT_OF_DATE_KHR
\* from the acquire or the present therefore ends the process, with no
\* submit or present after a failed acquire and with the frame index not
\* advanced.
C36_NonSuccessEndsProcess ==
    /\ []OnlySuccessPasses
    /\ [][EndsTheProcess]_vars

\* the acquire of a later render() call returned VK_SUBOPTIMAL_KHR and the
\* process ended there, on a slot other than the first
C36_Witness ==
    /\ AbortedAt("acquire")
    /\ lastResult = "VK_SUBOPTIMAL_KHR"
    /\ CurrentFrame >= 1
    /\ mFrameIndex = 1

----------------------------------------------------------------------------
(* The descriptor sets *)

\* the uniform buffers a set of resources holds
UniformBuffersIn(resources) == {r \in resources : r.kind = "mUniformBuffers"}

\* the descriptor sets the commands of a sequence bind
SetsBoundIn(commands) ==
    {commands[k].arg : k \in PositionsOf("vkCmdBindDescriptorSets", commands)}

\* until the constructor's last step no set holds anything; from then on
\* set i holds uniform buffer i and the texture image; a command buffer
\* binds the set of its own index only; a queued submission of a render()
\* call reads the uniform buffer of that call's slot and no other, and the
\* call wrote that slot's block before it submitted
SetPerSlot ==
    /\ \A i \in Slots :
          mDescriptorSets[i] =
             IF setupPc = "constructed"
             THEN [uniformBuffer |-> Resource("mUniformBuffers", i),
                   image |-> Resource("mImage", 0)]
             ELSE NoDescriptors
    /\ \A c \in Slots : SetsBoundIn(mCommandBuffers[c].commands) \subseteq {c}
    /\ pc \in {"endCommandBuffer", "submit", "present", "advance"} =>
          SetsBoundIn(mCommandBuffers[commandBuffer].commands) = {mFrameIndex}
    /\ \A k \in DOMAIN submissions :
          submissions[k].frame >= 0 =>
             /\ UniformBuffersIn(submissions[k].resources) =
                   {Resource("mUniformBuffers", SlotOf(submissions[k].frame))}
             /\ uniformWrites[SlotOf(submissions[k].frame)] =
                   Cardinality(CallsOfSlot(submissions[k].frame))

\* the sets change in one step only, the constructor's last, which finds
\* them unwritten
WrittenOnceAtSetup ==
    mDescriptorSets' # mDescriptorSets =>
       /\ setupPc = "updateDescriptorSets"
       /\ setupPc' = "constructed"
       /\ slotHistory = <<>>
       /\ \A i \in Slots : mDescriptorSets[i] = NoDescriptors

\* C38: descriptor set i is written once, by the constructor, to name
\* uniform buffer i and the shared texture, and never again; a render()
\* call binds the set of its own frame index only, so the commands of
\* slot i read only the uniform buffer of slot i, which the same call
\* wrote before it recorded them.
C38_DescriptorSetOfOwnSlot ==
    /\ []SetPerSlot
    /\ [][WrittenOnceAtSetup]_vars

\* with two slots, the submission of a call on the second slot is in the
\* queue: it reads the second uniform buffer, not the first
C38_Witness ==
    /\ swapchainImageCount = 2
    /\ \E k \in DOMAIN submissions :
          /\ submissions[k].frame >= 1
          /\ SlotOf(submissions[k].frame) = 1
          /\ Resource("mUniformBuffers", 1) \in submissions[k].resources
          /\ Resource("mUniformBuffers", 0) \notin submissions[k].resources
          /\ mDescriptorSets[1].uniformBuffer = Resource("mUniformBuffers", 1)

----------------------------------------------------------------------------
(* The sizes of the per-slot and per-image vectors *)

\* the valid indices of a vector of N elements
IndicesOf(n) == 0 .. (n - 1)

\* every vector has N elements; the frame index is a valid index of the
\* per-slot vectors at every statement of render(), and the acquired image
\* index a valid index of mFramebuffers wherever render() holds one
VectorsHaveNElements ==
    /\ swapchainImageCount >= 1
    /\ DOMAIN mCommandBuffers = IndicesOf(swapchainImageCount)
    /\ DOMAIN mFencesForSubmit = IndicesOf(swapchainImageCount)
    /\ DOMAIN mFencesForAcquire = IndicesOf(swapchainImageCount)
    /\ DOMAIN mSemaphores = IndicesOf(swapchainImageCount)
    /\ DOMAIN mUniformBuffers = IndicesOf(swapchainImageCount)
    /\ DOMAIN mUniformMemories = IndicesOf(swapchainImageCount)
    /\ DOMAIN mUniformData = IndicesOf(swapchainImageCount)
    /\ DOMAIN mDescriptorSets = IndicesOf(swapchainImageCount)
    /\ DOMAIN mFramebuffers = IndicesOf(swapchainImageCount)
    /\ DOMAIN imageOwner = IndicesOf(swapchainImageCount)
    /\ mFrameIndex \in IndicesOf(swapchainImageCount)
    /\ {fenceForSubmit, fenceForAcquire, commandBuffer, uniformData,
        descriptorSet, semaphore} \subseteq IndicesOf(swapchainImageCount)
    /\ swapchainImageIndex \in IndicesOf(swapchainImageCount) \cup {NoImage}
    /\ pc \in HoldingSteps =>
          /\ swapchainImageIndex \in DOMAIN mFramebuffers
          /\ framebuffer = mFramebuffers[swapchainImageIndex]
    /\ \A k \in DOMAIN slotHistory :
          slotHistory[k] \in IndicesOf(swapchainImageCount)
    /\ \A k \in DOMAIN presents :
          presents[k].imageIndex \in IndicesOf(swapchainImageCount)

\* C39: the per-slot and per-image vectors all have N elements, N being
\* the swapchain image count, which never changes; the frame index and
\* the acquired image index are valid indices in every reachable state.
C39_IndicesInBounds ==
    /\ []VectorsHaveNElements
    /\ [][swapchainImageCount' = swapchainImageCount]_vars

\* with two slots, a render() call works on the last element of the
\* per-slot vectors and holds the last image, after the index has wrapped
C39_Witness ==
    /\ swapchainImageCount = 2
    /\ mFrameIndex = swapchainImageCount - 1
    /\ swapchainImageIndex = swapchainImageCount - 1
    /\ pc = "recordCommands"
    /\ CurrentFrame >= 3

----------------------------------------------------------------------------
(* Progress of render() *)

\* the queue and the presentation engine do not stop while they have work:
\* a submission to finish or to signal, a present request to process, a
\* displayed image to release, an acquire to complete
DeviceProgress == WF_vars(Device)

\* the CPU thread makes its next call whenever that call can return
\* without a failure; a call that fails ends the process
ThreadProgress == WF_vars(Render /\ pc' # "abort")

SpecProgress == Init /\ [][Next]_vars /\ DeviceProgress /\ ThreadProgress

\* render() is between its entry and its return
InRender == pc \notin {"idle", "abort"}

\* every render() call made so far has returned and advanced the index
AllReturned == pc = "idle" /\ calls.advance = Len(slotHistory)

\* C37: if the queue completes every submission and the presentation
\* engine completes every acquire and releases every presented image, a
\* render() call that has been entered returns and advances the frame
\* index, unless a call fails and ends the process: neither fence wait
\* and no acquire blocks forever.
C37_RenderReturns == InRender ~> (AllReturned \/ pc = "abort")

\* with two slots, the fifth render() call has returned: each slot has
\* been waited on after a submission of its own
C37_Witness ==
    /\ swapchainImageCount = 2
    /\ AllReturned
    /\ calls.advance >= 4
    /\ calls.waitSubmit >= 4
    /\ calls.waitAcquire >= 4

----------------------------------------------------------------------------
(* The destructor of hello-graceful-shutdown on a running device *)

\* everything but the thread's position, the last result and the call log
shutdownOtherVars ==
    <<swapchainImageCount, mFrameIndex, swapchainImageIndex, framebuffer,
      presentInfo, mFencesForSubmit, mFencesForAcquire, mSemaphores,
      mCommandBuffers, mUniformData, steps, calls, slotHistory,
      imageOrderDiffers, envVars, uploadVars, memVars, selectVars,
      swapchainVars, ruleVars, bufferVars, allocVars, sample, lifetimePc,
      textureCopy, shaderCompile, descriptorVars>>

\* the event loop destroys the renderer between two render() calls
DestructorEnter ==
    /\ pc = "idle"
    /\ setupPc = "constructed"
    /\ pc' = "deviceWaitIdle"
    /\ UNCHANGED <<lastResult, lifetimeCalls, shutdownOtherVars>>

\* the call returns while the device still has work
DeviceWaitIdle_NoWait ==
    /\ pc = "deviceWaitIdle"
    /\ \E vkResult \in CallResults :
          /\ lastResult' = vkResult
          /\ pc' = VK_CHECK_ERROR(vkResult, "destroy")
    /\ lifetimeCalls' =
          Append(lifetimeCalls, GracefulDestructorCalls(swapchainImageCount)[1])
    /\ UNCHANGED shutdownOtherVars

\* 1229: vkDeviceWaitIdle returns VK_SUCCESS once every queue operation
\* (submission, fence signal, present request) has completed
DeviceWaitIdle ==
    /\ pc = "deviceWaitIdle"
    /\ \E vkResult \in CallResults :
          /\ vkResult = VK_SUCCESS => (submissions = <<>> /\ presents = <<>>)
          /\ lastResult' = vkResult
          /\ pc' = VK_CHECK_ERROR(vkResult, "destroy")
    /\ lifetimeCalls' =
          Append(lifetimeCalls, GracefulDestructorCalls(swapchainImageCount)[1])
    /\ UNCHANGED shutdownOtherVars

\* 1230-1282: the next unmap, free or destroy call of the destructor
DestroyNext ==
    /\ pc = "destroy"
    /\ LET all == GracefulDestructorCalls(swapchainImageCount)
           k == Len(lifetimeCalls) + 1 IN
          /\ lifetimeCalls' = Append(lifetimeCalls, all[k])
          /\ pc' = IF k = Len(all) THEN "destroyed" ELSE "destroy"
    /\ UNCHANGED <<lastResult, shutdownOtherVars>>

ShutdownNext == Next \/ DestructorEnter \/ DeviceWaitIdle \/ DestroyNext

SpecShutdown == Init /\ [][ShutdownNext]_vars

\* the device still has an operation pending that uses the object
PendingUse(h) ==
    CASE h.name = "mFencesForSubmit" -> SubmissionsOfSlot(h.index) # {}
      [] h.name = "mFencesForAcquire" -> acquiring[h.index] # NoAcquire
      [] h.name = "mSemaphores" ->
            \/ PendingWaits(h.index) # {}
            \/ \E k \in DOMAIN submissions :
                  h.index \in submissions[k].signalSemaphores
                                 \cup submissions[k].waitSemaphores
      [] h.name = "mCommandBuffers" ->
            \E c \in Slots :
               \/ mCommandBuffers[c].state = "pending"
               \/ \E k \in DOMAIN submissions : c \in submissions[k].commandBuffers
      [] h.name \in {"mUniformBuffers", "mUniformMemories"} ->
            UsersOf(mUniformBuffers[h.index]) # {}
      [] h.name \in {"mVertexBuffer", "mVertexMemory"} ->
            UsersOf(mVertexBuffer) # {}
      [] h.name \in {"mImage", "mMemory", "mImageView", "mTexture"} ->
            UsersOf(mImage) # {}
      [] OTHER -> submissions # <<>> \/ presents # <<>>

\* the calls that give an object or a mapping up
ReleasingCalls == DestroyingCalls \cup {"vkUnmapMemory"}

\* the first call of the destructor is vkDeviceWaitIdle, and once it has
\* returned the device holds no submission and no present request
IdleFirst ==
    /\ lifetimeCalls # <<>> => lifetimeCalls[1].call = "vkDeviceWaitIdle"
    /\ pc \in {"destroy", "destroyed"} =>
          /\ submissions = <<>>
          /\ presents = <<>>
          /\ \A c \in Slots : mCommandBuffers[c].state # "pending"
          /\ \A f \in Slots : acquiring[f] = NoAcquire

\* a call that releases an object is made after the wait, on an object
\* no pending operation uses
ReleasedUnused ==
    \A k \in (DOMAIN lifetimeCalls') \ (DOMAIN lifetimeCalls) :
       lifetimeCalls'[k].call \in ReleasingCalls =>
          /\ k > 1
          /\ pc = "destroy"
          /\ ~PendingUse(lifetimeCalls'[k].handle)

\* C34: the destructor of hello-graceful-shutdown waits for the device to
\* be idle before its first destroy or free, so after any number of
\* render() calls, zero included, no fence, semaphore, command buffer,
\* buffer, image or memory is released while a submission or a present
\* request that uses it is pending.
C34_IdleBeforeRelease ==
    /\ []IdleFirst
    /\ [][ReleasedUnused]_vars

\* the destructor has run to its end after three render() calls on two
\* slots
C34_Witness ==
    /\ pc = "destroyed"
    /\ swapchainImageCount = 2
    /\ Len(slotHistory) >= 3
    /\ lifetimeCalls = GracefulDestructorCalls(swapchainImageCount)

----------------------------------------------------------------------------
(* The single-slot samples on a running device: render() of vulkan-sampler  *)
(* (997-1125) and of vulkan-buffer (653-757).  Their one fence, semaphore,  *)
(* command buffer, uniform block and descriptor set are the entries of the  *)
(* per-slot functions at the frame index, which these programs never move.  *)

SingleSamples == {"vulkan-sampler", "vulkan-buffer"}

\* vulkan-sampler 378, vulkan-buffer 366: created with no flags
mFence == mFrameIndex

\* vulkan-sampler 387, vulkan-buffer 375
mSemaphore == mFrameIndex

\* vulkan-sampler 997-1124
SamplerRenderOrder == <<"update", "acquire", "waitFence", "resetFence",
                        "resetCommandBuffer", "beginCommandBuffer",
                        "recordCommands", "endCommandBuffer", "submit",
                        "present", "queueWaitIdle">>

\* vulkan-buffer 653-757
BufferRenderOrder == <<"acquire", "waitFence", "resetFence",
                       "resetCommandBuffer", "beginCommandBuffer",
                       "recordCommands", "updateClearValue",
                       "endCommandBuffer", "submit", "present",
                       "queueWaitIdle">>

SingleOrder == IF sample = "vulkan-sampler" THEN SamplerRenderOrder
               ELSE BufferRenderOrder

\* the statement that follows `step`; render() returns after the last one
NextSingleStep(step) ==
    LET k == CHOOSE n \in DOMAIN SingleOrder : SingleOrder[n] = step IN
        IF k = Len(SingleOrder) THEN "idle" ELSE SingleOrder[k + 1]

\* vulkan-sampler 1058-1091: the commands recorded between begin and end
SamplerRecordedCommands ==
    << [cmd |-> "vkCmdBeginRenderPass", arg |-> framebuffer],
       [cmd |-> "vkCmdBindPipeline", arg |-> "mPipeline"],
       [cmd |-> "vkCmdBindVertexBuffers", arg |-> "mVertexBuffer"],
       [cmd |-> "vkCmdBindDescriptorSets", arg |-> descriptorSet],
       [cmd |-> "vkCmdDraw", arg |-> "3,1,0,0"],
       [cmd |-> "vkCmdEndRenderPass", arg |-> "none"] >>

SingleRecordedCommands == IF sample = "vulkan-sampler"
                          THEN SamplerRecordedCommands
                          ELSE BufferRecordedCommands

\* vulkan-sampler 1101-1109, vulkan-buffer 733-741: the submission signals
\* mSemaphore, and the fence argument is VK_NULL_HANDLE
singleSubmitInfo ==
    [waitSemaphores |-> {}, commandBuffers |-> {commandBuffer},
     signalSemaphores |-> {mSemaphore}, fences |-> {}]

\* what no step of these render() functions changes
singleOtherVars ==
    <<swapchainImageCount, mFrameIndex, mFencesForSubmit, calls,
      imageOrderDiffers, peReading, completed, displayed, vertices,
      bufferData, memoryBound, hostWritten, memVars, selectVars,
      swapchainVars, ruleVars, bufferPc, mCommandBuffer, allocVars,
      sampleVars>>

\* a call whose result VK_CHECK_ERROR looks at
SingleCall(step, results) ==
    /\ pc = step
    /\ \E vkResult \in results :
          /\ lastResult' = vkResult
          /\ pc' = VK_CHECK_ERROR(vkResult, NextSingleStep(step))
    /\ steps' = Log(step)

\* vulkan-sampler 944-958: the descriptor set is written once, with the
\* uniform buffer
SamplerUpdateDescriptorSet ==
    /\ pc = "idle"
    /\ setupPc = "updateDescriptorSets"
    /\ mDescriptorSets' =
          [mDescriptorSets EXCEPT ![descriptorSet] =
              [uniformBuffer |-> mUniformBuffers[uniformData],
               image |-> NoDescriptors.image]]
    /\ setupPc' = "constructed"
    /\ UNCHANGED <<singleOtherVars, pc, lastResult, steps, slotHistory,
                   swapchainImageIndex, framebuffer, presentInfo,
                   mFencesForAcquire, mSemaphores, mCommandBuffers,
                   mUniformData, uniformWrites, submissions, presents,
                   acquiring, imageOwner, mClearValue>>

\* the event loop calls render()
SingleRenderEnter ==
    /\ pc = "idle"
    /\ setupPc = "constructed"
    /\ Len(slotHistory) < MaxFrames
    /\ pc' = SingleOrder[1]
    /\ slotHistory' = Append(slotHistory, mFrameIndex)
    /\ steps' = <<>>
    /\ UNCHANGED <<singleOtherVars, lastResult, swapchainImageIndex,
                   framebuffer, presentInfo, mFencesForAcquire, mSemaphores,
                   mCommandBuffers, mUniformData, uniformWrites, submissions,
                   presents, acquiring, imageOwner, setupPc, mDescriptorSets,
                   mClearValue>>

\* vulkan-sampler 1001-1009: the CPU writes the mapped uniform block
SingleUpdateUniform ==
    /\ pc = "update"
    /\ mUniformData' = [mUniformData EXCEPT
                           ![uniformData] = UpdateUniformData(@)]
    /\ uniformWrites' = [uniformWrites EXCEPT ![uniformData] = @ + 1]
    /\ pc' = NextSingleStep("update")
    /\ steps' = Log("update")
    /\ UNCHANGED <<singleOtherVars, lastResult, slotHistory,
                   swapchainImageIndex, framebuffer, presentInfo,
                   mFencesForAcquire, mSemaphores, mCommandBuffers,
                   submissions, presents, acquiring, imageOwner, setupPc,
                   mDescriptorSets, mClearValue>>

\* vulkan-sampler 1014-1021, vulkan-buffer 657-664: vkAcquireNextImageKHR
\* with no semaphore and mFence, infinite timeout, then the framebuffer of
\* the returned index
SingleAcquireNextImage ==
    /\ pc = "acquire"
    /\ \/ \E j \in Images :
             /\ imageOwner[j] = "pe"
             /\ swapchainImageIndex' = j
             /\ framebuffer' = FramebufferFor(j)
             /\ imageOwner' = [imageOwner EXCEPT ![j] = "app"]
             /\ acquiring' = [acquiring EXCEPT ![mFence] =
                                 [image |-> j, semaphores |-> {}]]
             /\ lastResult' = VK_SUCCESS
             /\ pc' = VK_CHECK_ERROR(VK_SUCCESS, NextSingleStep("acquire"))
       \/ \E vkResult \in SwapchainResults \ {VK_SUCCESS} :
             /\ lastResult' = vkResult
             /\ pc' = VK_CHECK_ERROR(vkResult, NextSingleStep("acquire"))
             /\ UNCHANGED <<swapchainImageIndex, framebuffer, imageOwner,
                            acquiring>>
    /\ steps' = Log("acquire")
    /\ UNCHANGED <<singleOtherVars, slotHistory, presentInfo,
                   mFencesForAcquire, mSemaphores, mCommandBuffers,
                   mUniformData, uniformWrites, submissions, presents,
                   setupPc, mDescriptorSets, mClearValue>>

\* vulkan-sampler 1026, vulkan-buffer 669: vkWaitForFences(mFence),
\* infinite timeout
SingleWaitForFence ==
    /\ SingleCall("waitFence", CallResults)
    /\ lastResult' = VK_SUCCESS => mFencesForAcquire[mFence]
    /\ UNCHANGED <<singleOtherVars, slotHistory, swapchainImageIndex,
                   framebuffer, presentInfo, mFencesForAcquire, mSemaphores,
                   mCommandBuffers, mUniformData, uniformWrites, submissions,
                   presents, acquiring, imageOwner, setupPc, mDescriptorSets,
                   mClearValue>>

\* vulkan-sampler 1027, vulkan-buffer 670: vkResetFences(mFence)
SingleResetFence ==
    /\ SingleCall("resetFence", CallResults)
    /\ mFencesForAcquire' =
          IF lastResult' = VK_SUCCESS
          THEN [mFencesForAcquire EXCEPT ![mFence] = FALSE]
          ELSE mFencesForAcquire
    /\ UNCHANGED <<singleOtherVars, slotHistory, swapchainImageIndex,
                   framebuffer, presentInfo, mSemaphores, mCommandBuffers,
                   mUniformData, uniformWrites, submissions, presents,
                   acquiring, imageOwner, setupPc, mDescriptorSets,
                   mClearValue>>

\* vulkan-sampler 1032, vulkan-buffer 675: vkResetCommandBuffer; the result
\* is discarded
SingleResetCommandBuffer ==
    /\ pc = "resetCommandBuffer"
    /\ \E vkResult \in ResetResults :
          /\ lastResult' = vkResult
          /\ mCommandBuffers' =
                IF vkResult = VK_SUCCESS
                THEN [mCommandBuffers EXCEPT ![commandBuffer] =
                         [state |-> "initial", commands |-> <<>>]]
                ELSE mCommandBuffers
    /\ pc' = NextSingleStep("resetCommandBuffer")
    /\ steps' = Log("resetCommandBuffer")
    /\ UNCHANGED <<singleOtherVars, slotHistory, swapchainImageIndex,
                   framebuffer, presentInfo, mFencesForAcquire, mSemaphores,
                   mUniformData, uniformWrites, submissions, presents,
                   acquiring, imageOwner, setupPc, mDescriptorSets,
                   mClearValue>>

\* vulkan-sampler 1037-1042, vulkan-buffer 680-685: vkBeginCommandBuffer,
\* one-time submit
SingleBeginCommandBuffer ==
    /\ SingleCall("beginCommandBuffer", CallResults)
    /\ mCommandBuffers' =
          IF lastResult' = VK_SUCCESS
          THEN [mCommandBuffers EXCEPT ![commandBuffer] =
                   [state |-> "recording", commands |-> <<>>]]
          ELSE mCommandBuffers
    /\ UNCHANGED <<singleOtherVars, slotHistory, swapchainImageIndex,
                   framebuffer, presentInfo, mFencesForAcquire, mSemaphores,
                   mUniformData, uniformWrites, submissions, presents,
                   acquiring, imageOwner, setupPc, mDescriptorSets,
                   mClearValue>>

\* vulkan-sampler 1047-1091, vulkan-buffer 690-716: the vkCmd* calls
SingleRecordCommands ==
    /\ pc = "recordCommands"
    /\ mCommandBuffers' =
          [mCommandBuffers EXCEPT
              ![commandBuffer].commands = @ \o SingleRecordedCommands]
    /\ pc' = NextSingleStep("recordCommands")
    /\ steps' = Log("recordCommands")
    /\ UNCHANGED <<singleOtherVars, lastResult, slotHistory,
                   swapchainImageIndex, framebuffer, presentInfo,
                   mFencesForAcquire, mSemaphores, mUniformData,
                   uniformWrites, submissions, presents, acquiring,
                   imageOwner, setupPc, mDescriptorSets, mClearValue>>

\* vulkan-buffer 721-723: the clear colour moves on
SingleUpdateClearValue ==
    /\ pc = "updateClearValue"
    /\ mClearValue' = mClearValue + 1
    /\ pc' = NextSingleStep("updateClearValue")
    /\ steps' = Log("updateClearValue")
    /\ UNCHANGED <<singleOtherVars, lastResult, slotHistory,
                   swapchainImageIndex, framebuffer, presentInfo,
                   mFencesForAcquire, mSemaphores, mCommandBuffers,
                   mUniformData, uniformWrites, submissions, presents,
                   acquiring, imageOwner, setupPc, mDescriptorSets>>

\* vulkan-sampler 1096, vulkan-buffer 728: vkEndCommandBuffer
SingleEndCommandBuffer ==
    /\ SingleCall("endCommandBuffer", CallResults)
    /\ mCommandBuffers' =
          IF lastResult' = VK_SUCCESS
          THEN [mCommandBuffers EXCEPT ![commandBuffer].state = "executable"]
          ELSE mCommandBuffers
    /\ UNCHANGED <<singleOtherVars, slotHistory, swapchainImageIndex,
                   framebuffer, presentInfo, mFencesForAcquire, mSemaphores,
                   mUniformData, uniformWrites, submissions, presents,
                   acquiring, imageOwner, setupPc, mDescriptorSets,
                   mClearValue>>

\* vulkan-sampler 1101-1109, vulkan-buffer 733-741: vkQueueSubmit
SingleQueueSubmit ==
    /\ SingleCall("submit", CallResults)
    /\ IF lastResult' = VK_SUCCESS
       THEN /\ submissions' = Append(submissions, Submission(singleSubmitInfo))
            /\ mCommandBuffers' =
                  [mCommandBuffers EXCEPT ![commandBuffer].state = "pending"]
       ELSE UNCHANGED <<submissions, mCommandBuffers>>
    /\ UNCHANGED <<singleOtherVars, slotHistory, swapchainImageIndex,
                   framebuffer, presentInfo, mFencesForAcquire, mSemaphores,
                   mUniformData, uniformWrites, presents, acquiring,
                   imageOwner, setupPc, mDescriptorSets, mClearValue>>

\* vulkan-sampler 1114-1123, vulkan-buffer 746-755: vkQueuePresentKHR
\* waiting for mSemaphore
SingleQueuePresent ==
    /\ SingleCall("present", SwapchainResults)
    /\ presentInfo' = [waitSemaphores |-> {mSemaphore},
                       imageIndex |-> swapchainImageIndex]
    /\ IF lastResult' = VK_SUCCESS
       THEN /\ presents' = Append(presents,
                                  [frame |-> CurrentFrame,
                                   waitSemaphores |-> presentInfo'.waitSemaphores,
                                   imageIndex |-> presentInfo'.imageIndex])
            /\ imageOwner' = [imageOwner EXCEPT
                                 ![presentInfo'.imageIndex] = "queued"]
       ELSE UNCHANGED <<presents, imageOwner>>
    /\ UNCHANGED <<singleOtherVars, slotHistory, swapchainImageIndex,
                   framebuffer, mFencesForAcquire, mSemaphores,
                   mCommandBuffers, mUniformData, uniformWrites, submissions,
                   acquiring, setupPc, mDescriptorSets, mClearValue>>

\* the call returns while the queue still holds the submission
SingleQueueWaitIdle_NoWait ==
    /\ SingleCall("queueWaitIdle", CallResults)
    /\ swapchainImageIndex' = NoImage
    /\ framebuffer' = NoFramebuffer
    /\ presentInfo' = NoPresentInfo
    /\ UNCHANGED <<singleOtherVars, slotHistory, mFencesForAcquire,
                   mSemaphores, mCommandBuffers, mUniformData, uniformWrites,
                   submissions, presents, acquiring, imageOwner, setupPc,
                   mDescriptorSets, mClearValue>>

\* vulkan-sampler 1124, vulkan-buffer 756: vkQueueWaitIdle returns
\* VK_SUCCESS once the queue holds no submission; render() returns and its
\* locals end
SingleQueueWaitIdle ==
    /\ SingleCall("queueWaitIdle", CallResults)
    /\ lastResult' = VK_SUCCESS => submissions = <<>>
    /\ swapchainImageIndex' = NoImage
    /\ framebuffer' = NoFramebuffer
    /\ presentInfo' = NoPresentInfo
    /\ UNCHANGED <<singleOtherVars, slotHistory, mFencesForAcquire,
                   mSemaphores, mCommandBuffers, mUniformData, uniformWrites,
                   submissions, presents, acquiring, imageOwner, setupPc,
                   mDescriptorSets, mClearValue>>

SingleRender ==
    \/ SamplerUpdateDescriptorSet
    \/ SingleRenderEnter
    \/ SingleUpdateUniform
    \/ SingleAcquireNextImage
    \/ SingleWaitForFence
    \/ SingleResetFence
    \/ SingleResetCommandBuffer
    \/ SingleBeginCommandBuffer
    \/ SingleRecordCommands
    \/ SingleUpdateClearValue
    \/ SingleEndCommandBuffer
    \/ SingleQueueSubmit
    \/ SingleQueuePresent
    \/ SingleQueueWaitIdle

SingleNext == SingleRender \/ Device

\* one of the two programs has been constructed up to its descriptor set
\* (vulkan-buffer has none)
SingleInit ==
    /\ swapchainImageCount \in 1 .. MaxImages
    /\ FrameInit
    /\ vertices = VertexArray
    /\ UploadIdle
    /\ MemIdle
    /\ SelectIdle
    /\ SwapchainIdle
    /\ RuleIdle
    /\ BufferIdle
    /\ AllocIdle
    /\ sample \in SingleSamples
    /\ setupPc = IF sample = "vulkan-sampler" THEN "updateDescriptorSets"
                 ELSE "constructed"
    /\ lifetimePc = "none"
    /\ lifetimeCalls = <<>>
    /\ textureCopy = NoTextureCopy
    /\ shaderCompile = NoShaderCompile

SpecSingle == SingleInit /\ [][SingleNext]_vars

\* at the entry of render() the queue holds no submission and the command
\* buffer is not pending
IdleAtEntry ==
    pc = "idle" =>
       /\ submissions = <<>>
       /\ mCommandBuffers[commandBuffer].state # "pending"

\* mFence is unsignaled, and awaited by no acquire, when it is handed to
\* vkAcquireNextImageKHR; no submission ever carries a fence
FenceFreshAtAcquire ==
    /\ pc = "acquire" =>
          /\ ~mFencesForAcquire[mFence]
          /\ acquiring[mFence] = NoAcquire
    /\ \A k \in DOMAIN submissions : submissions[k].fences = {}

\* the thread resets, begins or records the command buffer only while the
\* queue does not execute it
ResetWhileNotExecuting ==
    (/\ pc \in {"resetCommandBuffer", "beginCommandBuffer", "recordCommands"}
     /\ pc' # pc) =>
       /\ mCommandBuffers[commandBuffer].state # "pending"
       /\ PendingOn(commandBuffer) = {}

\* the thread writes the uniform block only while no submission reads the
\* uniform buffer
UniformWrittenWhileUnread ==
    mUniformData' # mUniformData =>
       /\ UsersOf(mUniformBuffers[uniformData]) = {}
       /\ Unexecuted = {}

\* C33: in vulkan-buffer and vulkan-sampler render() ends with a blocking
\* vkQueueWaitIdle, so at the entry of every render() call no submission
\* is pending: the command buffer is never reset and the mapped uniform
\* block is never written while the queue executes a previous frame, and
\* mFence, used for the acquire only, is unsignaled at every acquire.
C33_SingleSlotSerialized ==
    /\ []IdleAtEntry
    /\ []FenceFreshAtAcquire
    /\ [][ResetWhileNotExecuting]_vars
    /\ [][UniformWrittenWhileUnread]_vars

\* vulkan-sampler is in its third render() call, has written the uniform
\* block and is about to acquire, the two earlier frames having been
\* executed
C33_Witness ==
    /\ sample = "vulkan-sampler"
    /\ pc = "acquire"
    /\ Len(slotHistory) = 3
    /\ uniformWrites[uniformData] = 3
    /\ completed = {0, 1}

----------------------------------------------------------------------------
(* The order of the destructors, pair by pair *)

\* the positions of the destructor's calls that destroy or free a handle
\* of one of the names
ReleasedAt(names) ==
    {k \in DOMAIN lifetimeCalls :
        /\ InDestructor(k)
        /\ lifetimeCalls[k].call \in DestroyingCalls
        /\ lifetimeCalls[k].handle.name \in names}

\* handles of the first names are destroyed, all of them before any handle
\* of the second names
ReleasedBefore(children, parents) ==
    /\ ReleasedAt(children) # {}
    /\ ReleasedAt(parents) # {}
    /\ \A c \in ReleasedAt(children), d \in ReleasedAt(parents) : c < d

\* the names of the objects created from the device
DeviceChildren ==
    {lifetimeCalls[k].handle.name :
        k \in {n \in DOMAIN lifetimeCalls :
                  lifetimeCalls[n].call \in CreatingCalls}}
    \ {"mInstance", "mSurface", "mDevice"}

\* no handle is destroyed twice by the destructor, and every handle
\* created is destroyed once in the object's life (the constructor's
\* temporaries by the constructor itself)
ReleasedExactlyOnce ==
    /\ \A j, k \in ReleasedAt(DeviceChildren \cup {"mInstance", "mSurface", "mDevice"}) :
          (/\ lifetimeCalls[j].handle.name = lifetimeCalls[k].handle.name
           /\ \/ lifetimeCalls[j].handle.index = lifetimeCalls[k].handle.index
              \/ AllSlots \in {lifetimeCalls[j].handle.index,
                               lifetimeCalls[k].handle.index})
          => j = k
    /\ \A h \in CreatedHandles : Cardinality(DestroyedAt(h)) = 1

\* C35: in every destructor each object is destroyed exactly once and
\* before the objects it was created from or allocated out of: descriptor
\* sets before their pool, command buffers before the command pool,
\* framebuffers before the render pass and the swapchain image views,
\* swapchain image views before the swapchain, every child of the device
\* before the device, and device and surface before the instance.
C35_ChildrenBeforeParents ==
    lifetimePc = "destroyed" =>
       /\ ReleasedExactlyOnce
       /\ sample # "vulkan-buffer" =>
             ReleasedBefore({"mDescriptorSets", "mDescriptorSet"},
                            {"mDescriptorPool"})
       /\ ReleasedBefore({"mCommandBuffers", "mCommandBuffer"}, {"mCommandPool"})
       /\ ReleasedBefore({"mFramebuffers"}, {"mRenderPass"})
       /\ ReleasedBefore({"mFramebuffers"}, {"mSwapchainImageViews"})
       /\ ReleasedBefore({"mSwapchainImageViews"}, {"mSwapchain"})
       /\ ReleasedBefore(DeviceChildren, {"mDevice"})
       /\ ReleasedBefore({"mDevice", "mSurface"}, {"mInstance"})

\* vulkan-sampler with two swapchain images has been destroyed: its
\* descriptor set, both framebuffers and both image views are gone
C35_Witness ==
    /\ lifetimePc = "destroyed"
    /\ sample = "vulkan-sampler"
    /\ swapchainImageCount = 2
    /\ Cardinality(ReleasedAt({"mFramebuffers", "mSwapchainImageViews"})) = 4
    /\ ReleasedAt({"mDescriptorSet"}) # {}

====
